---------------------------- MODULE Spec2Model ----------------------------
(***************************************************************************)
(* sysframe: the SBS v2 serializer (pybytes, conversions.c from line 3521) *)
(* and the shared-memory bridge built on it (membridge.c).                 *)
(*                                                                         *)
(* Two state machines share this module:                                   *)
(*   CodecSpec  applies from_value / to_value to values and buffers drawn  *)
(*              from bounded sets;                                         *)
(*   Spec       runs create_memory / write_memory / read_memory /          *)
(*              remove_memory of several processes on one named segment,   *)
(*              one system call or memory access per step.                 *)
(*                                                                         *)
(* Bytes are naturals 0..255.  C offsets are 0-based: the byte at C index  *)
(* i of a buffer b is b[i+1].                                              *)
(***************************************************************************)
EXTENDS Integers, Sequences, FiniteSets, TLC

\* ------------------------------------------------------------------------
\* Markers and datachars (conversions.c 3625-3765)
\* ------------------------------------------------------------------------
EXT_M == 255
PROT_1 == 254
PROT_2 == 253
PROT_SBS_D == PROT_2

STR_E == 0
STR_1 == 1
STR_2 == 2
STR_D1 == 3
STR_D2 == 4
INT_1 == 5
INT_2 == 6
INT_3 == 7
INT_4 == 8
INT_5 == 9
INT_D1 == 10
INT_D2 == 11
FLOAT_S == 12
BOOL_T == 13
BOOL_F == 14
COMPLEX_S == 15
NONE_S == 16
ELLIPSIS_S == 17
BYTES_E == 18
BYTES_1 == 19
BYTES_2 == 20
BYTES_D1 == 21
BYTES_D2 == 22
BYTEARR_E == 23
BYTEARR_1 == 24
BYTEARR_2 == 25
BYTEARR_D1 == 26
BYTEARR_D2 == 27
LIST_E == 28
LIST_1 == 29
LIST_2 == 30
LIST_D1 == 31
LIST_D2 == 32
SET_E == 33
SET_1 == 34
SET_2 == 35
SET_D1 == 36
SET_D2 == 37
TUPLE_E == 38
TUPLE_1 == 39
TUPLE_2 == 40
TUPLE_D1 == 41
TUPLE_D2 == 42
DICT_E == 43
DICT_1 == 44
DICT_2 == 45
DICT_D1 == 46
DICT_D2 == 47
FSET_E == 48
FSET_1 == 49
FSET_2 == 50
FSET_D1 == 51
FSET_D2 == 52
DATETIME_DT == 53
DATETIME_TD == 54
DATETIME_D == 55
DATETIME_T == 56
UUID_S == 57
MEMVIEW_E == 58
MEMVIEW_1 == 59
MEMVIEW_2 == 60
MEMVIEW_D1 == 61
MEMVIEW_D2 == 62
DECIMAL_1 == 63
DECIMAL_2 == 64
DECIMAL_D1 == 65
DECIMAL_D2 == 66
RANGE_S == 67
NTUPLE_E == 68
NTUPLE_1 == 69
NTUPLE_2 == 70
NTUPLE_D1 == 71
NTUPLE_D2 == 72
DEQUE_E == 73
DEQUE_1 == 74
DEQUE_2 == 75
DEQUE_D1 == 76
DEQUE_D2 == 77
COUNTER_E == 78
COUNTER_1 == 79
COUNTER_2 == 80
COUNTER_D1 == 81
COUNTER_D2 == 82

\* StatusCode (conversions.c 3769-3776)
SC_SUCCESS == "SC_SUCCESS"
SC_INCORRECT == "SC_INCORRECT"
SC_UNSUPPORTED == "SC_UNSUPPORTED"
SC_EXCEPTION == "SC_EXCEPTION"
SC_NESTDEPTH == "SC_NESTDEPTH"
SC_NOMEMORY == "SC_NOMEMORY"

ALLOC_SIZE == 128
MAX_NESTS == 101

\* Let(v, F) is F(v): the value v under the name F gives it.
Let(v, F(_)) == F(v)

\* ------------------------------------------------------------------------
\* Arithmetic on bytes
\* ------------------------------------------------------------------------
Byte == 0..255

RECURSIVE Pow256(_)
Pow256(k) == IF k = 0 THEN 1 ELSE 256 * Pow256(k - 1)

RECURSIVE BitXor(_, _)
\* The C operator ^ on non-negative ints.
BitXor(a, b) ==
    IF a = 0 /\ b = 0 THEN 0
    ELSE (((a % 2) + (b % 2)) % 2) + (2 * BitXor(a \div 2, b \div 2))

RECURSIVE Flatten(_)
Flatten(ss) == IF ss = <<>> THEN <<>> ELSE Head(ss) \o Flatten(Tail(ss))

Take(s, n) == SubSeq(s, 1, n)
Drop(s, n) == SubSeq(s, n + 1, Len(s))

\* ------------------------------------------------------------------------
\* Python integers: sign and magnitude, the magnitude as little-endian
\* base-256 digits without leading (high) zero digits.  Zero is the empty
\* magnitude.  TLC's own integers are 32 bits wide, so an Int that needs
\* more than four payload bytes is only expressible this way.
\* ------------------------------------------------------------------------
RECURSIVE BitLen(_)
BitLen(b) == IF b = 0 THEN 0 ELSE 1 + BitLen(b \div 2)

RECURSIVE StripZ(_)
StripZ(s) ==
    IF s = <<>> THEN <<>>
    ELSE IF s[Len(s)] = 0 THEN StripZ(Take(s, Len(s) - 1)) ELSE s

RECURSIVE MagOf(_)
MagOf(n) == IF n = 0 THEN <<>> ELSE <<n % 256>> \o MagOf(n \div 256)

\* The Python int with the value of the TLA+ integer n.
PyInt(n) == [neg |-> n < 0, mag |-> IF n < 0 THEN MagOf(0 - n) ELSE MagOf(n)]

PadTo(s, n) == [i \in 1..n |-> IF i <= Len(s) THEN s[i] ELSE 0]
Invert(s) == [i \in 1..Len(s) |-> 255 - s[i]]

RECURSIVE DecBytes(_)
DecBytes(s) ==
    IF s = <<>> THEN <<>>
    ELSE IF s[1] > 0 THEN <<s[1] - 1>> \o Tail(s)
    ELSE <<255>> \o DecBytes(Tail(s))

RECURSIVE IncBytes(_)
IncBytes(s) ==
    IF s = <<>> THEN <<>>
    ELSE IF s[1] < 255 THEN <<s[1] + 1>> \o Tail(s)
    ELSE <<0>> \o IncBytes(Tail(s))

\* _PyLong_NumBits: the bit length of the absolute value.
PyLong_NumBits(v) ==
    IF v.mag = <<>> THEN 0
    ELSE (8 * (Len(v.mag) - 1)) + BitLen(v.mag[Len(v.mag)])

\* Py_SIZE(value) > 0 on a PyLongObject whose ob_size carries the sign
\* (conversions.c 4284): true of the positive integers only.
PySizePositive(v) == ~v.neg /\ v.mag # <<>>

\* 2^(8n-1): the one negative magnitude of NumBits = 8n that n signed bytes hold.
IsMinNeg(mag, n) ==
    /\ Len(mag) = n
    /\ mag[n] = 128
    /\ \A i \in 1..(n - 1) : mag[i] = 0

\* _PyLong_AsByteArray(v, buf, n, little_endian = 1, is_signed = 1):
\* ok = FALSE is the -1 return (OverflowError).
PyLong_AsByteArray(v, n) ==
    IF ~v.neg
    THEN IF PyLong_NumBits(v) <= (8 * n) - 1
         THEN [ok |-> TRUE, bytes |-> PadTo(v.mag, n)]
         ELSE [ok |-> FALSE, bytes |-> <<>>]
    ELSE IF PyLong_NumBits(v) <= (8 * n) - 1 \/ IsMinNeg(v.mag, n)
         THEN [ok |-> TRUE, bytes |-> Invert(DecBytes(PadTo(v.mag, n)))]
         ELSE [ok |-> FALSE, bytes |-> <<>>]

\* _PyLong_FromByteArray(bytes, n, little_endian = 1, is_signed = 1).
PyLong_FromByteArray(bs) ==
    IF bs = <<>> THEN [neg |-> FALSE, mag |-> <<>>]
    ELSE IF bs[Len(bs)] >= 128
         THEN [neg |-> TRUE, mag |-> StripZ(IncBytes(Invert(bs)))]
         ELSE [neg |-> FALSE, mag |-> StripZ(bs)]

\* A C int (32 bits, little-endian two's complement) as memcpy lays it out.
Int32Bytes(x) == [i \in 1..4 |-> (x \div Pow256(i - 1)) % 256]
Int32Of(b) ==
    b[1] + (256 * b[2]) + (65536 * b[3])
      + (16777216 * (IF b[4] < 128 THEN b[4] ELSE b[4] - 256))

\* ------------------------------------------------------------------------
\* Text: a Str is a sequence of code points below 0x800; UTF-8 writes a code
\* point below 0x80 as itself and the others as two bytes.
\* ------------------------------------------------------------------------
Utf8OfCp(cp) ==
    IF cp < 128 THEN <<cp>> ELSE <<192 + (cp \div 64), 128 + (cp % 64)>>

RECURSIVE PyUnicode_AsUTF8(_)
PyUnicode_AsUTF8(cps) ==
    IF cps = <<>> THEN <<>>
    ELSE Utf8OfCp(Head(cps)) \o PyUnicode_AsUTF8(Tail(cps))

RECURSIVE Utf8Decode(_)
\* PyUnicode_FromEncodedObject(bytes, "utf-8", "strict"): ok = FALSE is the
\* UnicodeDecodeError.  Sequences of three or four bytes are outside the
\* modelled alphabet and are reported as errors as well.
Utf8Decode(bs) ==
    IF bs = <<>> THEN [ok |-> TRUE, cps |-> <<>>]
    ELSE IF bs[1] < 128
         THEN Let(Utf8Decode(Tail(bs)), LAMBDA r :
                  [ok |-> r.ok, cps |-> <<bs[1]>> \o r.cps])
    ELSE IF bs[1] >= 194 /\ bs[1] < 224 /\ Len(bs) >= 2
            /\ bs[2] >= 128 /\ bs[2] < 192
         THEN Let(Utf8Decode(Drop(bs, 2)), LAMBDA r :
                  [ok |-> r.ok,
                   cps |-> <<((bs[1] - 192) * 64) + (bs[2] - 128)>> \o r.cps])
    ELSE [ok |-> FALSE, cps |-> <<>>]

\* ------------------------------------------------------------------------
\* Values: <<kind, payload>>.
\*   Str, Decimal, DateTime, Date, Time   code points (Decimal and the
\*                                        datetime kinds carry the text that
\*                                        str() / isoformat() returns)
\*   Int                                  [neg, mag]
\*   Float                                the 8 bytes of the double
\*   Complex                              <<real 8 bytes, imag 8 bytes>>
\*   Bool                                 TRUE / FALSE
\*   None, Ellipsis, Unsupported          <<>>
\*   Bytes, ByteArray, MemoryView         bytes
\*   UUID                                 the 32 characters of .hex
\*   TimeDelta                            <<days, seconds, microseconds>>
\*   Range                                <<start, stop, step>>, each an Int value
\*   List, Tuple, Deque, Set, FrozenSet   the elements, in iteration order
\*   Dict, Counter                        <<key, value>> pairs, in order
\*   NamedTuple                           <<type name, <<field name, value>> pairs>>
\* ------------------------------------------------------------------------
Kind(v) == v[1]
Pl(v) == v[2]

Str(cps) == <<"Str", cps>>
IntV(n) == <<"Int", PyInt(n)>>
Bool(b) == <<"Bool", b>>
NoneV == <<"None", <<>>>>
EllipsisV == <<"Ellipsis", <<>>>>
Bytes(bs) == <<"Bytes", bs>>
ByteArray(bs) == <<"ByteArray", bs>>
MemoryView(bs) == <<"MemoryView", bs>>
List(vs) == <<"List", vs>>
Tuple(vs) == <<"Tuple", vs>>
Deque(vs) == <<"Deque", vs>>
SetV(vs) == <<"Set", vs>>
FrozenSet(vs) == <<"FrozenSet", vs>>
Dict(ps) == <<"Dict", ps>>
Counter(ps) == <<"Counter", ps>>
NamedTuple(name, fs) == <<"NamedTuple", <<name, fs>>>>
Range(a, b, c) == <<"Range", <<IntV(a), IntV(b), IntV(c)>>>>
TimeDelta(d, sec, us) == <<"TimeDelta", <<d, sec, us>>>>

\* The composite kinds whose encoders call increment_nests, and all of them.
NestKinds == {"List", "Tuple", "Deque", "Set", "FrozenSet", "Dict", "Counter"}
CompositeKinds == NestKinds \cup {"NamedTuple"}

\* ------------------------------------------------------------------------
\* Encoder state (ValueData, conversions.c 3940-3945).  bytes holds what has
\* been written, so offset = Len(bytes).  allocs is the number of
\* (re)allocations that will still succeed, -1 for all of them; isnull says
\* that bytes is the NULL a failed malloc returned; frees counts free() calls
\* on the buffer; faults collects the undefined behaviour the run went through.
\* ------------------------------------------------------------------------
Ret(sc, vd) == [sc |-> sc, vd |-> vd]

\* One or more bytes stored at bytes[offset++].
Put(vd, bs) ==
    [vd EXCEPT !.bytes = @ \o bs,
               !.offset = @ + Len(bs),
               !.faults = @ \cup (IF bs # <<>> /\ vd.offset + Len(bs) > vd.max_size
                                  THEN {"overflow"} ELSE {})
                            \cup (IF bs # <<>> /\ vd.isnull
                                  THEN {"nullwrite"} ELSE {})]

auto_resize_vd(vd, jump) ==
    IF vd.offset + jump > vd.max_size
    THEN Let([vd EXCEPT !.max_size = @ + jump + ALLOC_SIZE], LAMBDA grown :
             IF vd.allocs = 0
             THEN Ret(SC_NOMEMORY, [grown EXCEPT !.frees = @ + 1])
             ELSE Ret(SC_SUCCESS,
                      [grown EXCEPT !.allocs = IF @ > 0 THEN @ - 1 ELSE @,
                                    !.isnull = FALSE]))
    ELSE Ret(SC_SUCCESS, vd)

increment_nests(vd) ==
    Let([vd EXCEPT !.nests = @ + 1], LAMBDA vd1 :
        IF vd1.nests = MAX_NESTS THEN Ret(SC_NESTDEPTH, vd1)
        ELSE Ret(SC_SUCCESS, vd1))

\* sys.getsizeof(value) of a 64-bit CPython, the shallow footprint that
\* init_vd takes as its estimate.
GetSizeOf(v) ==
    CASE Kind(v) \in {"Str", "Decimal", "DateTime", "Date", "Time"} -> 49 + Len(Pl(v))
      [] Kind(v) = "Int" -> 28 + (4 * (Len(Pl(v).mag) \div 4))
      [] Kind(v) \in {"Bytes", "MemoryView"} -> 33 + Len(Pl(v))
      [] Kind(v) = "ByteArray" -> 57 + Len(Pl(v))
      [] Kind(v) \in {"List", "Deque"} -> 56 + (8 * Len(Pl(v)))
      [] Kind(v) = "Tuple" -> 40 + (8 * Len(Pl(v)))
      [] Kind(v) = "NamedTuple" -> 40 + (8 * Len(Pl(v)[2]))
      [] Kind(v) \in {"Set", "FrozenSet"} -> 216
      [] Kind(v) \in {"Dict", "Counter"} -> 64 + (104 * Len(Pl(v)))
      [] OTHER -> 24

\* init_vd writing the legacy marker as the protocol byte.
init_vd_legacy(value, allocs) ==
    Let(GetSizeOf(value) + ALLOC_SIZE, LAMBDA max_size :
        Ret(IF allocs = 0 THEN SC_NOMEMORY ELSE SC_SUCCESS,
            [offset |-> 1, max_size |-> max_size, nests |-> 0, bytes |-> <<PROT_1>>,
             allocs |-> IF allocs > 0 THEN allocs - 1 ELSE allocs,
             isnull |-> allocs = 0, frees |-> 0, faults |-> {}]))

init_vd(value, allocs) ==
    Let(GetSizeOf(value) + ALLOC_SIZE, LAMBDA max_size :
        Let(  [offset |-> 1, max_size |-> max_size, nests |-> 0, bytes |-> <<>>,
               allocs |-> IF allocs > 0 THEN allocs - 1 ELSE allocs,
               isnull |-> allocs = 0, frees |-> 0, faults |-> {}], LAMBDA vd :
        IF allocs = 0
        THEN Ret(SC_NOMEMORY, [vd EXCEPT !.bytes = <<PROT_SBS_D>>])
        ELSE Ret(SC_SUCCESS, [vd EXCEPT !.bytes = <<PROT_SBS_D>>])))

\* get_num_bytes shifting by seven bits instead of eight.
RECURSIVE get_num_bytes_shift7(_)
get_num_bytes_shift7(value) ==
    IF value > 0 THEN 1 + get_num_bytes_shift7(value \div 128) ELSE 0

RECURSIVE get_num_bytes(_)
get_num_bytes(value) ==
    IF value > 0 THEN 1 + get_num_bytes(value \div 256) ELSE 0

\* The bytes write_size_bytes stores (conversions.c 4050-4064).
SizeBytes(num, num_bytes) ==
    [i \in 1..num_bytes |-> (num \div Pow256(i - 1)) % 256]

write_size_bytes(vd, num, num_bytes) == Put(vd, SizeBytes(num, num_bytes))

write_metadata(vd, datachar, num, num_bytes) ==
    Ret(SC_SUCCESS, write_size_bytes(Put(vd, <<datachar>>), num, num_bytes))

write_dynamic1_metadata(vd, datachar, num, num_bytes) ==
    Let(auto_resize_vd(vd, num_bytes + 2), LAMBDA r :
        IF r.sc = SC_NOMEMORY THEN r
        ELSE Ret(SC_SUCCESS,
                 write_size_bytes(Put(r.vd, <<datachar, num_bytes % 256>>),
                                  num, num_bytes)))

write_dynamic2_metadata(vd, datachar, num, num_bytes) ==
    Let(get_num_bytes(num_bytes), LAMBDA num_bytes_length :
        Let(auto_resize_vd(vd, num_bytes + 2), LAMBDA r :
        IF r.sc = SC_NOMEMORY THEN r
        ELSE Ret(SC_SUCCESS,
                 write_size_bytes(
                     write_size_bytes(
                         Put(r.vd, <<datachar % 256, num_bytes_length % 256>>),
                         num_bytes, num_bytes_length),
                     num, num_bytes))))

\* (255^255) - 1 of conversions.c 4201: ^ is C's exclusive or.
D2Limit == BitXor(255, 255) - 1

\* The branch write_E12D takes for num_bytes = get_num_bytes(size): its
\* switch and the two comparisons of the default case.
E12D_variant(num_bytes) ==
    IF num_bytes = 0 THEN "E"
    ELSE IF num_bytes = 1 THEN "1"
    ELSE IF num_bytes = 2 THEN "2"
    ELSE IF num_bytes < 256 THEN "D1"
    ELSE IF num_bytes < D2Limit THEN "D2"
    ELSE "Exception"

\* The tag and length bytes of write_E12D; the payload follows in write_E12D.
E12D_metadata(vd, size, empty) ==
    Let(get_num_bytes(size), LAMBDA num_bytes :
    Let(E12D_variant(num_bytes), LAMBDA variant :
        IF variant = "E" THEN
            Let(auto_resize_vd(vd, 1), LAMBDA r :
                IF r.sc = SC_NOMEMORY THEN r
                ELSE Ret(SC_SUCCESS, Put(r.vd, <<empty>>)))
        ELSE IF variant \in {"1", "2"} THEN
            Let(auto_resize_vd(vd, num_bytes + size + 1), LAMBDA r :
                IF r.sc = SC_NOMEMORY THEN r
                ELSE write_metadata(r.vd, empty + num_bytes, size, num_bytes))
        ELSE IF variant = "D1" THEN
            Let(auto_resize_vd(vd, num_bytes + size + 1), LAMBDA r :
                IF r.sc = SC_NOMEMORY THEN r
                ELSE write_dynamic1_metadata(r.vd, (empty + 3) % 256, size, num_bytes))
        ELSE IF variant = "D2" THEN
            Let(auto_resize_vd(vd, num_bytes + size + 1), LAMBDA r :
                IF r.sc = SC_NOMEMORY THEN r
                ELSE write_dynamic2_metadata(r.vd, empty + 4, size, num_bytes))
        ELSE Ret(SC_EXCEPTION, vd)))

\* write_E12D(vd, size, bytes, empty); hasBytes = FALSE is bytes == NULL.
write_E12D(vd, size, hasBytes, bytes, empty) ==
    Let(E12D_metadata(vd, size, empty), LAMBDA m :
        IF m.sc # SC_SUCCESS \/ size = 0 \/ ~hasBytes THEN m
        ELSE Ret(SC_SUCCESS, Put(m.vd, bytes)))

\* The callers' "if (write_E12D(...) == SC_NOMEMORY) return SC_NOMEMORY;
\* return SC_SUCCESS;" (from_string, from_bytes, from_bytearray, from_decimal,
\* from_memoryview).
OnlyNoMemory(r) == IF r.sc = SC_NOMEMORY THEN r ELSE Ret(SC_SUCCESS, r.vd)

from_string(vd, cps) ==
    Let(PyUnicode_AsUTF8(cps), LAMBDA bytes :
        OnlyNoMemory(write_E12D(vd, Len(bytes), TRUE, bytes, STR_E)))

from_integer(vd, v) ==
    Let(IF PySizePositive(v) THEN (PyLong_NumBits(v) + 8) \div 8 ELSE 1, LAMBDA num_bytes :
        Let(        IF num_bytes <= 5 THEN INT_1 + (num_bytes - 1)
                    ELSE IF num_bytes < 256 THEN INT_D1 ELSE INT_D2, LAMBDA datachar :
        Let(          IF num_bytes <= 5 THEN 0
                      ELSE IF num_bytes < 256 THEN 1 ELSE 2, LAMBDA is_dynamic :
        Let(auto_resize_vd(vd, 1 + is_dynamic + num_bytes), LAMBDA r1 :
        Let(Put(r1.vd, <<datachar>>), LAMBDA vd1 :
        Let(get_num_bytes(num_bytes), LAMBDA num_bytes_length :
        Let(auto_resize_vd(vd1, 1 + num_bytes_length), LAMBDA r2 :
        \* after the dynamic size bytes, before the integer's own bytes
        Let(   IF is_dynamic = 0 THEN Ret(SC_SUCCESS, vd1)
               ELSE IF is_dynamic = 1
                    THEN Ret(SC_SUCCESS, Put(vd1, <<num_bytes % 256>>))
               ELSE IF num_bytes_length > 255 THEN Ret(SC_EXCEPTION, vd1)
               ELSE IF r2.sc = SC_NOMEMORY THEN r2
               ELSE Ret(SC_SUCCESS,
                        write_size_bytes(Put(r2.vd, <<num_bytes_length % 256>>),
                                         num_bytes, num_bytes_length)), LAMBDA pre :
        Let(PyLong_AsByteArray(v, num_bytes), LAMBDA arr :
        IF r1.sc = SC_NOMEMORY THEN r1
        ELSE IF pre.sc # SC_SUCCESS THEN pre
        ELSE IF ~arr.ok THEN Ret(SC_EXCEPTION, pre.vd)
        ELSE Ret(SC_SUCCESS, Put(pre.vd, arr.bytes)))))))))))

from_float(vd, b8) ==
    Let(auto_resize_vd(vd, 1 + 8), LAMBDA r :
        IF r.sc = SC_NOMEMORY THEN r
        ELSE Ret(SC_SUCCESS, Put(Put(r.vd, <<FLOAT_S>>), b8)))

from_complex(vd, c) ==
    Let(auto_resize_vd(vd, 1 + (2 * 8)), LAMBDA r :
        IF r.sc = SC_NOMEMORY THEN r
        ELSE Ret(SC_SUCCESS, Put(Put(r.vd, <<COMPLEX_S>>), c[1] \o c[2])))

from_boolean(vd, b) ==
    Let(auto_resize_vd(vd, 1), LAMBDA r :
        IF r.sc = SC_NOMEMORY THEN r
        ELSE Ret(SC_SUCCESS, Put(r.vd, <<IF b THEN BOOL_T ELSE BOOL_F>>)))

from_bytes(vd, bs) ==
    OnlyNoMemory(write_E12D(vd, Len(bs), TRUE, bs, BYTES_E))

from_bytearray(vd, bs) ==
    OnlyNoMemory(write_E12D(vd, Len(bs), TRUE, bs, BYTEARR_E))

from_static_value(vd, datachar) ==
    Let(auto_resize_vd(vd, 1), LAMBDA r :
        IF r.sc = SC_NOMEMORY THEN r
        ELSE Ret(SC_SUCCESS, Put(r.vd, <<datachar>>)))

\* from_datetime: the timedelta branch and the isoformat branch.
from_timedelta(vd, t) ==
    Let(auto_resize_vd(vd, 1 + (3 * 4)), LAMBDA r :
        IF r.sc = SC_NOMEMORY THEN r
        ELSE Ret(SC_SUCCESS,
                 Put(Put(r.vd, <<DATETIME_TD>>),
                     Int32Bytes(t[1]) \o Int32Bytes(t[2]) \o Int32Bytes(t[3]))))

from_datetime(vd, kind, iso) ==
    Let(PyUnicode_AsUTF8(iso), LAMBDA bytes :
        Let(Len(bytes), LAMBDA size :
        Let(auto_resize_vd(vd, 2 + size), LAMBDA r :
        Let(        CASE kind = "DateTime" -> DATETIME_DT
                      [] kind = "Date" -> DATETIME_D
                      [] OTHER -> DATETIME_T, LAMBDA datachar :
        IF r.sc = SC_NOMEMORY THEN r
        ELSE Ret(SC_SUCCESS, Put(Put(r.vd, <<datachar, size % 256>>), bytes))))))

from_decimal(vd, txt) ==
    Let(PyUnicode_AsUTF8(txt), LAMBDA bytes :
        OnlyNoMemory(write_E12D(vd, Len(bytes), TRUE, bytes, DECIMAL_1 - 1)))

from_uuid(vd, hex) ==
    Let(auto_resize_vd(vd, 33), LAMBDA r :
        IF r.sc = SC_NOMEMORY THEN r
        ELSE Ret(SC_SUCCESS, Put(Put(r.vd, <<UUID_S>>), Take(PyUnicode_AsUTF8(hex), 32))))

from_memoryview(vd, bs) ==
    Let(auto_resize_vd(vd, 1 + Len(bs)), LAMBDA r :
        IF r.sc = SC_NOMEMORY THEN r
        ELSE OnlyNoMemory(write_E12D(r.vd, Len(bs), TRUE, bs, MEMVIEW_E)))

from_range(vd, rg) ==
    Let(auto_resize_vd(vd, 1), LAMBDA r0 :
        Let(from_integer(Put(r0.vd, <<RANGE_S>>), Pl(rg[1])), LAMBDA r1 :
        Let(from_integer(r1.vd, Pl(rg[2])), LAMBDA r2 :
        Let(from_integer(r2.vd, Pl(rg[3])), LAMBDA r3 :
        IF r0.sc = SC_NOMEMORY THEN r0
        ELSE IF r1.sc # SC_SUCCESS THEN r1
        ELSE IF r2.sc # SC_SUCCESS THEN r2
        ELSE r3))))

\* ------------------------------------------------------------------------
\* Composite encoders (conversions.c 4623-4850) and the dispatch.
\* ------------------------------------------------------------------------
RECURSIVE from_any_value(_, _)
RECURSIVE from_items(_, _, _)
RECURSIVE from_fields(_, _, _)
RECURSIVE from_pairs(_, _, _, _)

\* for (i = ...; i < num_items; i++) if ((status = from_any_value(vd, item))
\* != SC_SUCCESS) return status;
from_items(vd, items, i) ==
    IF i > Len(items) THEN Ret(SC_SUCCESS, vd)
    ELSE Let(from_any_value(vd, items[i]), LAMBDA r :
             IF r.sc # SC_SUCCESS THEN r ELSE from_items(r.vd, items, i + 1))

\* Leaving a composite encoder: vd->nests--; return SC_SUCCESS;
LeaveNest(r) ==
    IF r.sc # SC_SUCCESS THEN r
    ELSE Ret(SC_SUCCESS, [r.vd EXCEPT !.nests = @ - 1])

\* A composite encoder up to its item loop: the nest count, then the tag and
\* the item count.  SC_NESTDEPTH and SC_NOMEMORY return; any other status of
\* write_E12D is not looked at.
EnterNest(vd, count, empty) ==
    Let(increment_nests(vd), LAMBDA n :
        Let(write_E12D(n.vd, count, FALSE, <<>>, empty), LAMBDA m :
        IF n.sc = SC_NESTDEPTH THEN n ELSE OnlyNoMemory(m)))

from_list_enter(vd, items) == EnterNest(vd, Len(items), LIST_E)

from_list(vd, items) ==
    Let(from_list_enter(vd, items), LAMBDA e :
        IF e.sc # SC_SUCCESS THEN e ELSE LeaveNest(from_items(e.vd, items, 1)))

from_tuple_enter(vd, items) == EnterNest(vd, Len(items), TUPLE_E)

from_tuple(vd, items) ==
    Let(from_tuple_enter(vd, items), LAMBDA e :
        IF e.sc # SC_SUCCESS THEN e ELSE LeaveNest(from_items(e.vd, items, 1)))

\* Set, FrozenSet and Deque: counted with one iterator, written with another.
from_iterable_enter(vd, items, empty) == EnterNest(vd, Len(items), empty)

from_iterable(vd, items, empty) ==
    Let(from_iterable_enter(vd, items, empty), LAMBDA e :
        IF e.sc # SC_SUCCESS THEN e ELSE LeaveNest(from_items(e.vd, items, 1)))

\* The field loop of from_namedtuple: the field name, then the field value.
from_fields(vd, fields, i) ==
    IF i > Len(fields) THEN Ret(SC_SUCCESS, vd)
    ELSE Let(from_string(vd, fields[i][1]), LAMBDA rn :
             Let(from_any_value(rn.vd, fields[i][2]), LAMBDA rv :
             IF rn.sc # SC_SUCCESS THEN rn
             ELSE IF rv.sc # SC_SUCCESS THEN rv
             ELSE from_fields(rv.vd, fields, i + 1)))

\* from_namedtuple_enter without the type name.
from_namedtuple_enter_noname(vd, nt) ==
    OnlyNoMemory(write_E12D(vd, Len(nt[2]), FALSE, <<>>, NTUPLE_E))

\* from_namedtuple up to its field loop: the tag and the field count, then the
\* type name.  It does not touch the nest count.
from_namedtuple_enter(vd, nt) ==
    Let(write_E12D(vd, Len(nt[2]), FALSE, <<>>, NTUPLE_E), LAMBDA m :
        IF m.sc = SC_NOMEMORY THEN m ELSE from_string(m.vd, nt[1]))

from_namedtuple(vd, nt) ==
    Let(from_namedtuple_enter(vd, nt), LAMBDA e :
        IF e.sc # SC_SUCCESS THEN e ELSE from_fields(e.vd, nt[2], 1))

\* A Counter's value goes through from_integer, whose PyLong_Check accepts
\* int and bool and answers SC_INCORRECT to the rest.
from_counter_value(vd, val) ==
    IF Kind(val) = "Int" THEN from_integer(vd, Pl(val))
    ELSE IF Kind(val) = "Bool" THEN from_integer(vd, PyInt(IF Pl(val) THEN 1 ELSE 0))
    ELSE Ret(SC_INCORRECT, vd)

\* The pair loop of from_dict and, with intValues, of from_counter, whose
\* values go through from_integer (PyLong_Check accepts int and bool).
from_pairs(vd, pairs, i, intValues) ==
    IF i > Len(pairs) THEN Ret(SC_SUCCESS, vd)
    ELSE Let(from_any_value(vd, pairs[i][1]), LAMBDA rk :
             Let(pairs[i][2], LAMBDA val :
             Let(  IF intValues THEN from_counter_value(rk.vd, val)
                   ELSE from_any_value(rk.vd, val), LAMBDA rv :
             IF rk.sc # SC_SUCCESS THEN rk
             ELSE IF rv.sc # SC_SUCCESS THEN rv
             ELSE from_pairs(rv.vd, pairs, i + 1, intValues))))

from_dict_enter(vd, pairs) == EnterNest(vd, Len(pairs), DICT_E)

from_dict(vd, pairs) ==
    Let(from_dict_enter(vd, pairs), LAMBDA e :
        IF e.sc # SC_SUCCESS THEN e ELSE LeaveNest(from_pairs(e.vd, pairs, 1, FALSE)))

from_counter_enter(vd, pairs) == EnterNest(vd, Len(pairs), COUNTER_E)

from_counter(vd, pairs) ==
    Let(from_counter_enter(vd, pairs), LAMBDA e :
        IF e.sc # SC_SUCCESS THEN e ELSE LeaveNest(from_pairs(e.vd, pairs, 1, TRUE)))

\* The switch on the type name of conversions.c 4854-4957, as a match on the
\* kind.  "Unsupported" stands for every object outside the closed set.
from_any_value(vd, value) ==
    CASE Kind(value) = "Tuple" -> from_tuple(vd, Pl(value))
      [] Kind(value) = "NamedTuple" -> from_namedtuple(vd, Pl(value))
      [] Kind(value) = "Str" -> from_string(vd, Pl(value))
      [] Kind(value) = "Set" -> from_iterable(vd, Pl(value), SET_E)
      [] Kind(value) = "Int" -> from_integer(vd, Pl(value))
      [] Kind(value) = "Float" -> from_float(vd, Pl(value))
      [] Kind(value) = "FrozenSet" -> from_iterable(vd, Pl(value), FSET_E)
      [] Kind(value) = "Deque" -> from_iterable(vd, Pl(value), DEQUE_E)
      [] Kind(value) = "Complex" -> from_complex(vd, Pl(value))
      [] Kind(value) = "Bool" -> from_boolean(vd, Pl(value))
      [] Kind(value) = "Bytes" -> from_bytes(vd, Pl(value))
      [] Kind(value) = "ByteArray" -> from_bytearray(vd, Pl(value))
      [] Kind(value) = "None" -> from_static_value(vd, NONE_S)
      [] Kind(value) = "Ellipsis" -> from_static_value(vd, ELLIPSIS_S)
      [] Kind(value) = "TimeDelta" -> from_timedelta(vd, Pl(value))
      [] Kind(value) \in {"DateTime", "Date", "Time"} ->
             from_datetime(vd, Kind(value), Pl(value))
      [] Kind(value) = "Decimal" -> from_decimal(vd, Pl(value))
      [] Kind(value) = "Dict" -> from_dict(vd, Pl(value))
      [] Kind(value) = "UUID" -> from_uuid(vd, Pl(value))
      [] Kind(value) = "MemoryView" -> from_memoryview(vd, Pl(value))
      [] Kind(value) = "List" -> from_list(vd, Pl(value))
      [] Kind(value) = "Range" -> from_range(vd, Pl(value))
      [] Kind(value) = "Counter" -> from_counter(vd, Pl(value))
      [] OTHER -> Ret(SC_UNSUPPORTED, vd)

\* The exception from_value raises for a status (conversions.c 4985-5013).
ErrorOf(sc) ==
    CASE sc \in {SC_INCORRECT, SC_UNSUPPORTED} -> "Unsupported"
      [] sc = SC_NESTDEPTH -> "NestDepth"
      [] sc = SC_NOMEMORY -> "NoMemory"
      [] sc = SC_EXCEPTION -> "Exception"
      [] OTHER -> "Unexpected"

\* What from_value does with the status of init_vd and of from_any_value:
\* ok with the bytes object, or the error raised, and the free of vd->bytes.
from_value_end(i, r) ==
    Let([r.vd EXCEPT !.frees = @ + 1], LAMBDA vd :
        IF i.sc = SC_EXCEPTION
        THEN [ok |-> FALSE, bytes |-> <<>>, sc |-> i.sc, err |-> "Exception", vd |-> i.vd]
        ELSE IF r.sc = SC_SUCCESS
        THEN [ok |-> TRUE, bytes |-> Take(vd.bytes, vd.offset), sc |-> r.sc,
              err |-> "", vd |-> vd]
        ELSE [ok |-> FALSE, bytes |-> <<>>, sc |-> r.sc, err |-> ErrorOf(r.sc),
              vd |-> vd])

\* from_value(value); allocs is the number of allocations that succeed
\* (-1: all of them).
from_value_a(value, allocs) ==
    Let(init_vd(value, allocs), LAMBDA i :
        from_value_end(i, from_any_value(i.vd, value)))

from_value(value) == from_value_a(value, -1)

\* The encoding of value without its protocol byte.
Body(value) == Tail(from_value(value).bytes)

\* ------------------------------------------------------------------------
\* Decoder state (ByteData, conversions.c 5022-5026).  bytes is the malloc'ed
\* copy, max_offset its length; offsets count from 0 as in C.  tail is what
\* the heap holds after the copy, which a read past max_offset returns.  hi is
\* the highest index read behind the protocol byte so far (-1: none), ens the
\* highest bound a successful
\* ensure_offset has established, unens whether some read was at or past ens.
\* ub collects the undefined behaviour the run went through.
\* ------------------------------------------------------------------------
NULL == <<"NULL", <<>>>>

DRet(bd, val) == [ok |-> TRUE, val |-> val, err |-> "", bd |-> bd]
\* A decoder's return of NULL; failed notes in the ByteData that one has been.
DFail(bd, err) ==
    [ok |-> FALSE, val |-> NULL, err |-> err, bd |-> [bd EXCEPT !.failed = TRUE]]

Max(a, b) == IF a > b THEN a ELSE b

\* bd->bytes[i]
At(bd, i) ==
    IF i < bd.max_offset THEN bd.bytes[i + 1]
    ELSE IF i - bd.max_offset < Len(bd.tail) THEN bd.tail[(i - bd.max_offset) + 1]
    ELSE 0

\* The n bytes at bd->bytes[from ..], and the ByteData after reading them.
Slice(bd, from, n) == [j \in 1..n |-> At(bd, (from + j) - 1)]

Touch(bd, from, n) ==
    IF n = 0 THEN bd
    ELSE [bd EXCEPT !.hi = Max(@, (from + n) - 1),
                    !.unens = @ \/ (from + n > bd.ens),
                    !.late = @ \/ bd.failed]

ensure_offset(bd, jump) ==
    IF bd.offset + jump > bd.max_offset THEN DFail(bd, "Truncated")
    ELSE DRet([bd EXCEPT !.ens = Max(@, bd.offset + jump)], NULL)

\* A size_t the model does not compute: any length of 2^30 or more.
Huge == 1073741824

RECURSIVE bytes_to_size_t(_)
bytes_to_size_t(bytes) ==
    IF bytes = <<>> THEN 0
    ELSE Let(bytes_to_size_t(Tail(bytes)), LAMBDA rest :
             IF rest >= Huge \div 256 THEN Huge ELSE Head(bytes) + (256 * rest))

\* D1_length: 0 with the error set when ensure_offset fails, else the byte
\* after the tag; the offset is left on that byte.
D1_length(bd) ==
    Let(ensure_offset(bd, 1), LAMBDA e :
        Let([Touch(e.bd, bd.offset + 1, 1) EXCEPT !.offset = @ + 1], LAMBDA bd1 :
        IF ~e.ok THEN [n |-> 0, err |-> e.err, bd |-> bd]
        ELSE [n |-> At(bd, bd.offset + 1), err |-> "", bd |-> bd1]))

D2_length(bd) ==
    Let(ensure_offset(bd, 1), LAMBDA e1 :
        Let([Touch(e1.bd, bd.offset + 1, 1) EXCEPT !.offset = @ + 1], LAMBDA bd1 :
        Let(At(bd, bd.offset + 1), LAMBDA length :
        Let(ensure_offset(bd1, length), LAMBDA e2 :
        Let([Touch(e2.bd, bd1.offset + 1, length) EXCEPT !.offset = @ + length], LAMBDA bd2 :
        IF ~e1.ok THEN [n |-> 0, err |-> e1.err, bd |-> bd]
        ELSE IF ~e2.ok THEN [n |-> 0, err |-> e2.err, bd |-> bd1]
        ELSE [n |-> bytes_to_size_t(Slice(bd1, bd1.offset + 1, length)),
              err |-> "", bd |-> bd2])))))

\* The common opening of the *_gen decoders: ensure_offset(bd, sbl + 1), the
\* length read from the sbl bytes after the tag, the offset moved past them.
SizeHead(bd, size_bytes_length) ==
    Let(ensure_offset(bd, size_bytes_length + 1), LAMBDA e :
        Let(   [Touch(e.bd, bd.offset + 1, size_bytes_length)
                    EXCEPT !.offset = @ + 1 + size_bytes_length], LAMBDA bd1 :
        IF ~e.ok THEN [ok |-> FALSE, n |-> 0, err |-> e.err, bd |-> bd]
        ELSE [ok |-> TRUE, err |-> "", bd |-> bd1,
              n |-> bytes_to_size_t(Slice(bd, bd.offset + 1, size_bytes_length))]))

\* The opening of the *_e decoders and of the one-byte values.
SkipTag(bd) ==
    Let(ensure_offset(bd, 1), LAMBDA e :
        IF ~e.ok THEN e ELSE DRet([e.bd EXCEPT !.offset = @ + 1], NULL))

\* ------------------------------------------------------------------------
\* Scalar decoders (conversions.c 5092-5360).
\* ------------------------------------------------------------------------
to_str_e(bd) ==
    Let(SkipTag(bd), LAMBDA k :    IF ~k.ok THEN k ELSE DRet(k.bd, Str(<<>>)))

to_str_gen(bd, size_bytes_length) ==
    Let(SizeHead(bd, size_bytes_length), LAMBDA h :
        Let(ensure_offset(h.bd, h.n), LAMBDA e :
        Let(Slice(e.bd, e.bd.offset, h.n), LAMBDA item_bytes :
        Let([Touch(e.bd, e.bd.offset, h.n) EXCEPT !.offset = @ + h.n], LAMBDA bd1 :
        Let(Utf8Decode(item_bytes), LAMBDA u :
        IF ~h.ok THEN DFail(h.bd, h.err)
        ELSE IF ~e.ok THEN e
        ELSE IF ~u.ok THEN DFail(bd1, "InvalidEncoding")
        ELSE DRet(bd1, Str(u.cps)))))))

to_int_gen(bd, length) ==
    Let(ensure_offset(bd, length + 1), LAMBDA e :
        Let([Touch(e.bd, bd.offset + 1, length) EXCEPT !.offset = @ + 1 + length], LAMBDA bd1 :
        IF ~e.ok THEN e
        ELSE DRet(bd1, <<"Int", PyLong_FromByteArray(Slice(bd, bd.offset + 1, length))>>)))

to_float_s(bd) ==
    Let(ensure_offset(bd, 1 + 8), LAMBDA e :
        Let([Touch(e.bd, bd.offset + 1, 8) EXCEPT !.offset = @ + 1 + 8], LAMBDA bd1 :
        IF ~e.ok THEN e ELSE DRet(bd1, <<"Float", Slice(bd, bd.offset + 1, 8)>>)))

to_bool_gen(bd, bool_value) ==
    Let(SkipTag(bd), LAMBDA k :    IF ~k.ok THEN k ELSE DRet(k.bd, Bool(bool_value)))

to_complex_s(bd) ==
    Let(ensure_offset(bd, (8 * 2) + 1), LAMBDA e :
        Let([Touch(e.bd, bd.offset + 1, 16) EXCEPT !.offset = @ + 1 + 16], LAMBDA bd1 :
        IF ~e.ok THEN e
        ELSE DRet(bd1, <<"Complex", <<Slice(bd, bd.offset + 1, 8),
                                      Slice(bd, bd.offset + 9, 8)>>>>)))

to_none_s(bd) ==
    Let(SkipTag(bd), LAMBDA k :    IF ~k.ok THEN k ELSE DRet(k.bd, NoneV))

to_ellipsis_s(bd) ==
    Let(SkipTag(bd), LAMBDA k :    IF ~k.ok THEN k ELSE DRet(k.bd, EllipsisV))

\* return is_bytearray ? PyBytes_... : PyByteArray_...
to_bytes_e(bd, is_bytearray) ==
    Let(SkipTag(bd), LAMBDA k :
        IF ~k.ok THEN k
        ELSE DRet(k.bd, IF is_bytearray # 0 THEN Bytes(<<>>) ELSE ByteArray(<<>>)))

to_bytes_gen(bd, size_bytes_length, is_bytearray) ==
    Let(SizeHead(bd, size_bytes_length), LAMBDA h :
        Let(ensure_offset(h.bd, h.n), LAMBDA e :
        Let(Slice(e.bd, e.bd.offset, h.n), LAMBDA item_bytes :
        Let([Touch(e.bd, e.bd.offset, h.n) EXCEPT !.offset = @ + h.n], LAMBDA bd1 :
        IF ~h.ok THEN DFail(h.bd, h.err)
        ELSE IF ~e.ok THEN e
        ELSE DRet(bd1, IF is_bytearray = 0 THEN Bytes(item_bytes)
                       ELSE ByteArray(item_bytes))))))

\* The text fromisoformat accepts, by its alphabet: digits and - : . + T
IsoChars == (48..57) \cup {45, 58, 46, 43, 84}
IsIso(cps) == cps # <<>> /\ \A i \in 1..Len(cps) : cps[i] \in IsoChars

\* method is the class called: "DateTime", "Date" or "Time".
to_datetime_gen(bd, method) ==
    Let(ensure_offset(bd, 1), LAMBDA e1 :
        Let(At(bd, bd.offset + 1), LAMBDA length :
        Let([Touch(e1.bd, bd.offset + 1, 1) EXCEPT !.offset = @ + 1], LAMBDA bd1 :
        Let(ensure_offset(bd1, length + 1), LAMBDA e2 :
        Let(Slice(bd1, bd1.offset + 1, length), LAMBDA iso_bytes :
        Let([Touch(e2.bd, bd1.offset + 1, length) EXCEPT !.offset = @ + 1 + length], LAMBDA bd2 :
        Let(Utf8Decode(iso_bytes), LAMBDA iso :
        IF ~e1.ok THEN e1
        ELSE IF ~e2.ok THEN e2
        ELSE IF ~iso.ok
        THEN DFail([bd2 EXCEPT !.ub = @ \cup {"nullderef"}], "Crash")
        ELSE IF ~IsIso(iso.cps) THEN DFail(bd2, "ConstructFailure")
        ELSE DRet(bd2, <<method, iso.cps>>))))))))

\* PyDelta_FromDSU: the normalised (days, seconds, microseconds), OverflowError
\* past 999999999 days.
PyDelta_FromDSU(days, seconds, microseconds) ==
    Let(microseconds % 1000000, LAMBDA us :
        Let(microseconds \div 1000000, LAMBDA c1 :
        Let((seconds % 86400) + c1, LAMBDA s0 :
        Let(s0 % 86400, LAMBDA s :
        Let((seconds \div 86400) + (s0 \div 86400), LAMBDA dcarry :
        IF days > 999999999 + 30000 \/ days < (0 - 999999999) - 30000
        THEN [ok |-> FALSE, val |-> NULL]
        ELSE IF days + dcarry > 999999999 \/ days + dcarry < 0 - 999999999
        THEN [ok |-> FALSE, val |-> NULL]
        ELSE [ok |-> TRUE, val |-> TimeDelta(days + dcarry, s, us)])))))

\* No ensure_offset: twelve bytes are read from behind the tag.
to_timedelta_s(bd) ==
    Let(Int32Of(Slice(bd, bd.offset + 1, 4)), LAMBDA days :
        Let(Int32Of(Slice(bd, bd.offset + 5, 4)), LAMBDA seconds :
        Let(Int32Of(Slice(bd, bd.offset + 9, 4)), LAMBDA microseconds :
        Let([Touch(bd, bd.offset + 1, 12) EXCEPT !.offset = @ + 1 + 12], LAMBDA bd1 :
        Let(PyDelta_FromDSU(days, seconds, microseconds), LAMBDA d :
        IF ~d.ok THEN DFail(bd1, "ConstructFailure") ELSE DRet(bd1, d.val))))))

HexChars == (48..57) \cup (97..102) \cup (65..70)
ToLower(cp) == IF cp \in 65..90 THEN cp + 32 ELSE cp

to_uuid_s(bd) ==
    Let(ensure_offset(bd, 33), LAMBDA e :
        Let(Utf8Decode(Slice(bd, bd.offset + 1, 32)), LAMBDA hex :
        Let(Touch(e.bd, bd.offset + 1, 32), LAMBDA bd0 :
        IF ~e.ok THEN e
        ELSE IF ~hex.ok \/ Len(hex.cps) # 32
                \/ \E i \in 1..Len(hex.cps) : hex.cps[i] \notin HexChars
        THEN DFail(bd0, "ConstructFailure")
        ELSE DRet([bd0 EXCEPT !.offset = @ + 1 + 32],
                  <<"UUID", [i \in 1..32 |-> ToLower(hex.cps[i])]>>))))

\* The offset stays on the tag.
to_memoryview_e(bd) ==
    Let(ensure_offset(bd, 1), LAMBDA e :
        IF ~e.ok THEN e ELSE DRet(e.bd, MemoryView(<<>>)))

to_memoryview_gen(bd, size_bytes_length) ==
    Let(SizeHead(bd, size_bytes_length), LAMBDA h :
        Let(ensure_offset(h.bd, h.n), LAMBDA e :
        Let(Slice(e.bd, e.bd.offset, h.n), LAMBDA buf_bytes :
        Let([Touch(e.bd, e.bd.offset, h.n) EXCEPT !.offset = @ + h.n], LAMBDA bd1 :
        IF ~h.ok THEN DFail(h.bd, h.err)
        ELSE IF ~e.ok THEN e
        ELSE DRet(bd1, MemoryView(buf_bytes))))))

\* The text Decimal() accepts, by its alphabet: digits and - + . E e
DecimalChars == (48..57) \cup {45, 43, 46, 69, 101}
IsDecimalText(cps) == cps # <<>> /\ \A i \in 1..Len(cps) : cps[i] \in DecimalChars

to_decimal_gen(bd, size_bytes_length) ==
    Let(SizeHead(bd, size_bytes_length), LAMBDA h :
        Let(ensure_offset(h.bd, h.n), LAMBDA e :
        Let(Utf8Decode(Slice(e.bd, e.bd.offset, h.n)), LAMBDA decimal_str :
        Let(Touch(e.bd, e.bd.offset, h.n), LAMBDA bd0 :
        IF ~h.ok THEN DFail(h.bd, h.err)
        ELSE IF ~e.ok THEN e
        ELSE IF ~decimal_str.ok
        THEN DFail([bd0 EXCEPT !.ub = @ \cup {"nullderef"}], "Crash")
        ELSE IF ~IsDecimalText(decimal_str.cps) THEN DFail(bd0, "ConstructFailure")
        ELSE DRet([bd0 EXCEPT !.offset = @ + h.n], <<"Decimal", decimal_str.cps>>)))))

\* ------------------------------------------------------------------------
\* What the Python constructors the composite decoders call accept.
\* ------------------------------------------------------------------------
RECURSIVE Hashable(_)
Hashable(v) ==
    CASE Kind(v) \in {"List", "Dict", "Set", "ByteArray", "Counter", "Deque", "NULL"} -> FALSE
      [] Kind(v) \in {"Tuple", "FrozenSet"} ->
             \A i \in 1..Len(Pl(v)) : Hashable(Pl(v)[i])
      [] Kind(v) = "NamedTuple" ->
             \A i \in 1..Len(Pl(v)[2]) : Hashable(Pl(v)[2][i][2])
      [] OTHER -> TRUE

\* Python's == between two hashable keys: True == 1 and False == 0.
AsNumber(v) ==
    IF Kind(v) = "Bool" THEN IntV(IF Pl(v) THEN 1 ELSE 0) ELSE v
KeyEq(a, b) == AsNumber(a) = AsNumber(b)

\* set(list): the first of equal elements stays.
RECURSIVE Dedup(_)
Dedup(items) ==
    IF items = <<>> THEN <<>>
    ELSE Let(Dedup(Take(items, Len(items) - 1)), LAMBDA init :
             Let(items[Len(items)], LAMBDA last :
             IF \E i \in 1..Len(init) : KeyEq(init[i], last) THEN init
             ELSE Append(init, last)))

\* PyDict_SetItem(dict, key, value) on the pairs inserted so far.
PyDict_SetItem(pairs, key, value) ==
    IF \E i \in 1..Len(pairs) : KeyEq(pairs[i][1], key)
    THEN [i \in 1..Len(pairs) |->
             IF KeyEq(pairs[i][1], key) THEN <<pairs[i][1], value>> ELSE pairs[i]]
    ELSE Append(pairs, <<key, value>>)

\* str(name) as collections.namedtuple takes it: a Str is itself, Ellipsis is
\* "Ellipsis", and the text of every other value is no identifier.
PyStr(v) ==
    CASE Kind(v) = "Str" -> Pl(v)
      [] Kind(v) = "Ellipsis" -> <<69, 108, 108, 105, 112, 115, 105, 115>>
      [] OTHER -> <<>>

IdentStart == (65..90) \cup (97..122) \cup {95}
IsIdentifier(cps) ==
    /\ cps # <<>>
    /\ cps[1] \in IdentStart
    /\ \A i \in 1..Len(cps) : cps[i] \in IdentStart \cup (48..57)

\* namedtuple(name, fields) returns a type: identifiers, field names distinct
\* and without a leading underscore.
NamedTupleTypeOk(name, fields) ==
    /\ IsIdentifier(PyStr(name))
    /\ \A i \in 1..Len(fields) :
          /\ IsIdentifier(PyStr(fields[i]))
          /\ PyStr(fields[i])[1] # 95
          /\ \A j \in 1..Len(fields) : PyStr(fields[i]) = PyStr(fields[j]) => i = j

\* ------------------------------------------------------------------------
\* Composite decoders (conversions.c 5362-5723) and the dispatch.
\* ------------------------------------------------------------------------
RECURSIVE to_any_value(_)
RECURSIVE to_items(_, _, _)
RECURSIVE to_pairs(_, _, _)
RECURSIVE to_fields(_, _, _)

\* The exception left set when two decodes ran in a row and one failed: the
\* later PyErr_Set* replaces the earlier.
LaterErr(first, second) == IF second.err # "" THEN second.err ELSE first.err

\* No ensure_offset and no NULL check: Py_DECREF of a NULL start, stop or step.
to_range_s(bd) ==
    Let(to_any_value([bd EXCEPT !.offset = @ + 1]), LAMBDA start :
        Let(to_any_value(start.bd), LAMBDA stop :
        Let(to_any_value(stop.bd), LAMBDA step :
        Let(\A x \in {start.val, stop.val, step.val} : Kind(x) \in {"Int", "Bool"}, LAMBDA isint :
        IF ~start.ok \/ ~stop.ok \/ ~step.ok
        THEN DFail([step.bd EXCEPT !.ub = @ \cup {"nullderef"}], "Crash")
        ELSE IF ~isint \/ AsNumber(step.val) = IntV(0)
        THEN DFail(step.bd, "ConstructFailure")
        ELSE DRet(step.bd, <<"Range", <<AsNumber(start.val), AsNumber(stop.val),
                                        AsNumber(step.val)>>>>)))))

\* for (i = 0; i < num_items; i++) { item = to_any_value(bd); if (item ==
\* NULL) return NULL; ... }: the items decoded, as a List.
to_items(bd, num_items, acc) ==
    IF num_items = 0 THEN DRet(bd, List(acc))
    ELSE Let(to_any_value(bd), LAMBDA item :
             IF ~item.ok THEN item
             ELSE to_items(item.bd, num_items - 1, Append(acc, item.val)))

to_list_e(bd) ==
    Let(SkipTag(bd), LAMBDA k :    IF ~k.ok THEN k ELSE DRet(k.bd, List(<<>>)))

to_list_gen(bd, size_bytes_length) ==
    Let(SizeHead(bd, size_bytes_length), LAMBDA h :
        IF ~h.ok THEN DFail(h.bd, h.err) ELSE to_items(h.bd, h.n, <<>>))

to_tuple_e(bd) ==
    Let(SkipTag(bd), LAMBDA k :    IF ~k.ok THEN k ELSE DRet(k.bd, Tuple(<<>>)))

to_tuple_gen(bd, size_bytes_length) ==
    Let(SizeHead(bd, size_bytes_length), LAMBDA h :
        Let(to_items(h.bd, h.n, <<>>), LAMBDA l :
        IF ~h.ok THEN DFail(h.bd, h.err)
        ELSE IF ~l.ok THEN l
        ELSE DRet(l.bd, Tuple(Pl(l.val)))))

\* PySet_New, PyFrozenSet_New or deque() of a list, by the empty tag.
IterOf(list, empty) ==
    CASE empty = SET_E -> SetV(Dedup(list))
      [] empty = FSET_E -> FrozenSet(Dedup(list))
      [] OTHER -> Deque(list)

to_iterable_e(bd, empty) ==
    Let(SkipTag(bd), LAMBDA k :    IF ~k.ok THEN k ELSE DRet(k.bd, IterOf(<<>>, empty)))

to_iterable_gen(bd, size_bytes_length, empty) ==
    Let(to_list_gen(bd, size_bytes_length), LAMBDA list :
        IF ~list.ok THEN list
        ELSE IF empty # DEQUE_E /\ \E i \in 1..Len(Pl(list.val)) : ~Hashable(Pl(list.val)[i])
        THEN DFail(list.bd, "ConstructFailure")
        ELSE DRet(list.bd, IterOf(Pl(list.val), empty)))

\* The pair loop of to_dict_gen and to_counter_gen.  The value is decoded
\* whether or not the key was; the result of PyDict_SetItem is not looked at,
\* so an unhashable key leaves its TypeError pending.
to_pairs(bd, num_items, acc) ==
    IF num_items = 0 THEN DRet(bd, Dict(acc))
    ELSE Let(to_any_value(bd), LAMBDA key :
             Let(to_any_value(key.bd), LAMBDA value :
             IF ~key.ok \/ ~value.ok THEN DFail(value.bd, LaterErr(key, value))
             ELSE IF ~Hashable(key.val)
             THEN to_pairs([value.bd EXCEPT !.pend = TRUE], num_items - 1, acc)
             ELSE to_pairs(value.bd, num_items - 1,
                           PyDict_SetItem(acc, key.val, value.val))))

to_dict_e(bd) ==
    Let(SkipTag(bd), LAMBDA k :    IF ~k.ok THEN k ELSE DRet(k.bd, Dict(<<>>)))

to_dict_gen(bd, size_bytes_length) ==
    Let(SizeHead(bd, size_bytes_length), LAMBDA h :
        IF ~h.ok THEN DFail(h.bd, h.err) ELSE to_pairs(h.bd, h.n, <<>>))

to_counter_e(bd) ==
    Let(SkipTag(bd), LAMBDA k :    IF ~k.ok THEN k ELSE DRet(k.bd, Counter(<<>>)))

to_counter_gen(bd, size_bytes_length) ==
    Let(SizeHead(bd, size_bytes_length), LAMBDA h :
        Let(to_pairs(h.bd, h.n, <<>>), LAMBDA d :
        IF ~h.ok THEN DFail(h.bd, h.err)
        ELSE IF ~d.ok THEN d
        ELSE DRet(d.bd, Counter(Pl(d.val)))))

\* The type and the instance of to_namedtuple_e and to_namedtuple_gen: a
\* namedtuple() that fails leaves nt_type NULL, which is then called.
MakeNamedTuple(bd, name, fields, items) ==
    IF ~NamedTupleTypeOk(name, fields)
    THEN DFail([bd EXCEPT !.ub = @ \cup {"nullderef"}], "Crash")
    ELSE DRet(bd, NamedTuple(PyStr(name),
                             [i \in 1..Len(fields) |-> <<PyStr(fields[i]), items[i]>>]))

to_namedtuple_e(bd) ==
    Let(SkipTag(bd), LAMBDA k :
        Let(to_any_value(k.bd), LAMBDA name :
        IF ~k.ok THEN k
        ELSE IF ~name.ok THEN name
        ELSE MakeNamedTuple(name.bd, name.val, <<>>, <<>>)))

\* The field loop of to_namedtuple_gen: acc holds <<field, item>> pairs.
to_fields(bd, num_items, acc) ==
    IF num_items = 0 THEN DRet(bd, Tuple(acc))
    ELSE Let(to_any_value(bd), LAMBDA field :
             Let(to_any_value(field.bd), LAMBDA item :
             IF ~field.ok \/ ~item.ok THEN DFail(item.bd, LaterErr(field, item))
             ELSE to_fields(item.bd, num_items - 1,
                            Append(acc, <<field.val, item.val>>))))

to_namedtuple_gen(bd, size_bytes_length) ==
    Let(SizeHead(bd, size_bytes_length), LAMBDA h :
        Let(to_any_value(h.bd), LAMBDA name :
        Let(to_fields(name.bd, h.n, <<>>), LAMBDA f :
        IF ~h.ok THEN DFail(h.bd, h.err)
        ELSE IF ~name.ok THEN name
        ELSE IF ~f.ok THEN f
        ELSE MakeNamedTuple(f.bd, name.val,
                            [i \in 1..Len(Pl(f.val)) |-> Pl(f.val)[i][1]],
                            [i \in 1..Len(Pl(f.val)) |-> Pl(f.val)[i][2]]))))

\* The tags with a length: an empty tag plus 1 (W1), 2 (W2), 3 (D1), 4 (D2).
SizedBases == {STR_E, BYTES_E, BYTEARR_E, MEMVIEW_E, DECIMAL_1 - 1, LIST_E,
               TUPLE_E, SET_E, FSET_E, DICT_E, NTUPLE_E, DEQUE_E, COUNTER_E}
SizedTags == {b + w : b \in SizedBases, w \in 1..4}
BaseOf(datachar) == CHOOSE b \in SizedBases : datachar - b \in 1..4

\* case X_1: return to_x_gen(bd, 1); ... case X_D1: size_bytes_length =
\* D1_length(bd); if (size_bytes_length == 0) return NULL; return
\* to_x_gen(bd, size_bytes_length);
to_gen(bd, base, size_bytes_length) ==
    CASE base = STR_E -> to_str_gen(bd, size_bytes_length)
      [] base = BYTES_E -> to_bytes_gen(bd, size_bytes_length, 0)
      [] base = BYTEARR_E -> to_bytes_gen(bd, size_bytes_length, 1)
      [] base = MEMVIEW_E -> to_memoryview_gen(bd, size_bytes_length)
      [] base = DECIMAL_1 - 1 -> to_decimal_gen(bd, size_bytes_length)
      [] base = LIST_E -> to_list_gen(bd, size_bytes_length)
      [] base = TUPLE_E -> to_tuple_gen(bd, size_bytes_length)
      [] base \in {SET_E, FSET_E, DEQUE_E} -> to_iterable_gen(bd, size_bytes_length, base)
      [] base = DICT_E -> to_dict_gen(bd, size_bytes_length)
      [] base = NTUPLE_E -> to_namedtuple_gen(bd, size_bytes_length)
      [] base = COUNTER_E -> to_counter_gen(bd, size_bytes_length)

to_sized(bd, datachar) ==
    Let(BaseOf(datachar), LAMBDA base :
        Let(datachar - base, LAMBDA w :
        Let( IF w = 3 THEN D1_length(bd)
             ELSE IF w = 4 THEN D2_length(bd)
             ELSE [n |-> w, err |-> "", bd |-> bd], LAMBDA l :
        IF l.n = 0 THEN DFail(l.bd, l.err) ELSE to_gen(l.bd, base, l.n))))

\* The switch of to_any_value; the tag is read before any ensure_offset.
to_any_value(bd0) ==
    Let(At(bd0, bd0.offset), LAMBDA datachar :
        Let(Touch(bd0, bd0.offset, 1), LAMBDA bd :
        CASE datachar \in SizedTags -> to_sized(bd, datachar)
          [] datachar = STR_E -> to_str_e(bd)
          [] datachar \in INT_1..INT_5 -> to_int_gen(bd, (datachar - INT_1) + 1)
          [] datachar = INT_D1 ->
                 Let(ensure_offset(bd, 1), LAMBDA e :
                     Let(At(bd, bd.offset + 1), LAMBDA length :
                     IF ~e.ok THEN e
                     ELSE to_int_gen([Touch(e.bd, bd.offset + 1, 1)
                                          EXCEPT !.offset = @ + 1], length)))
          [] datachar = INT_D2 ->
                 Let(D2_length(bd), LAMBDA l :
                     IF l.n = 0 THEN DFail(l.bd, l.err) ELSE to_int_gen(l.bd, l.n))
          [] datachar = FLOAT_S -> to_float_s(bd)
          [] datachar = BOOL_T -> to_bool_gen(bd, TRUE)
          [] datachar = BOOL_F -> to_bool_gen(bd, FALSE)
          [] datachar = COMPLEX_S -> to_complex_s(bd)
          [] datachar = NONE_S -> to_none_s(bd)
          [] datachar = ELLIPSIS_S -> to_ellipsis_s(bd)
          [] datachar = BYTES_E -> to_bytes_e(bd, 0)
          [] datachar = BYTEARR_E -> to_bytes_e(bd, 1)
          [] datachar = DATETIME_DT -> to_datetime_gen(bd, "DateTime")
          [] datachar = DATETIME_TD -> to_timedelta_s(bd)
          [] datachar = DATETIME_D -> to_datetime_gen(bd, "Date")
          [] datachar = DATETIME_T -> to_datetime_gen(bd, "Time")
          [] datachar = UUID_S -> to_uuid_s(bd)
          [] datachar = MEMVIEW_E -> to_memoryview_e(bd)
          [] datachar = LIST_E -> to_list_e(bd)
          [] datachar = TUPLE_E -> to_tuple_e(bd)
          [] datachar \in {SET_E, FSET_E, DEQUE_E} -> to_iterable_e(bd, datachar)
          [] datachar = DICT_E -> to_dict_e(bd)
          [] datachar = RANGE_S -> to_range_s(bd)
          [] datachar = NTUPLE_E -> to_namedtuple_e(bd)
          [] datachar = COUNTER_E -> to_counter_e(bd)
          [] OTHER -> DFail(bd, "InvalidTag")))

\* ------------------------------------------------------------------------
\* The legacy decoder (sbs_old/sbs_1.c).  Its tags have the names of the
\* current ones and other numbers; the ones decoded here are the scalars
\* without a payload and the complex number.
\* ------------------------------------------------------------------------
SBS1_BOOL_T == 12
SBS1_BOOL_F == 13
SBS1_COMPLEX_S == 14
SBS1_NONE_S == 15
SBS1_ELLIPSIS_S == 16
SBS1_DECIMAL_D == 56

Sbs1Decoded == {SBS1_BOOL_T, SBS1_BOOL_F, SBS1_COMPLEX_S, SBS1_NONE_S, SBS1_ELLIPSIS_S}

\* to_any_value of sbs_1.c: to_bool_gen, to_complex_s, to_none_s and
\* to_ellipsis_s there are those of the current decoder word for word.  The
\* other tags up to DECIMAL_D are not unfolded.
sbs1_to_any_value(bd0) ==
    Let(At(bd0, bd0.offset), LAMBDA datachar :
        Let(Touch(bd0, bd0.offset, 1), LAMBDA bd :
        CASE datachar = SBS1_BOOL_T -> to_bool_gen(bd, TRUE)
          [] datachar = SBS1_BOOL_F -> to_bool_gen(bd, FALSE)
          [] datachar = SBS1_COMPLEX_S -> to_complex_s(bd)
          [] datachar = SBS1_NONE_S -> to_none_s(bd)
          [] datachar = SBS1_ELLIPSIS_S -> to_ellipsis_s(bd)
          [] datachar > SBS1_DECIMAL_D -> DFail(bd, "InvalidTag")
          [] OTHER -> DFail(bd, "sbs_1")))

\* The ByteData to_value and to_value_prot1 set up: a copy of the bytes
\* object, offset 1 behind the protocol marker; tail is what the heap holds
\* behind the copy.
NewByteData(py_bytes, tail) ==
    [offset |-> 1, max_offset |-> Len(py_bytes), bytes |-> py_bytes,
     tail |-> tail, hi |-> -1, ens |-> 0, unens |-> FALSE, ub |-> {},
     pend |-> FALSE, failed |-> FALSE, late |-> FALSE]

to_value_prot1(py_bytes, tail) == sbs1_to_any_value(NewByteData(py_bytes, tail))

\* to_value running the current decoder whatever the first byte is.
to_value_t_any(py_bytes, tail) ==
    Let(to_any_value(NewByteData(py_bytes, tail)), LAMBDA r :
        IF r.ok /\ r.bd.pend THEN DFail(r.bd, "SystemError")
        ELSE IF ~r.ok /\ r.err = "" THEN DFail(r.bd, "SystemError")
        ELSE r)

\* to_value refusing a buffer that goes on behind the value it decoded.
to_value_t_whole(py_bytes, tail) ==
    Let(to_value_t_any(py_bytes, tail), LAMBDA r :
        IF r.ok /\ r.bd.offset < r.bd.max_offset THEN DFail(r.bd, "ValueError")
        ELSE r)

\* to_value(py_bytes): the bytes object and, as tail, what the heap holds
\* behind the copy of it.  A bytes object ends in a NUL, which an empty one
\* shows as its protocol byte.  A result that comes with an exception pending
\* is turned into SystemError by the interpreter, as is NULL without one.
to_value_t(py_bytes, tail) ==
    Let(IF py_bytes = <<>> THEN 0 ELSE py_bytes[1], LAMBDA protocol :
        Let(NewByteData(py_bytes, tail), LAMBDA bd :
        Let(to_any_value(bd), LAMBDA r :
        IF protocol = PROT_SBS_D
        THEN IF r.ok /\ r.bd.pend THEN DFail(r.bd, "SystemError")
             ELSE IF ~r.ok /\ r.err = "" THEN DFail(r.bd, "SystemError")
             ELSE r
        ELSE IF protocol = PROT_1 THEN to_value_prot1(py_bytes, tail)
        ELSE DFail(bd, "InvalidProtocol"))))

to_value(py_bytes) == to_value_t(py_bytes, <<>>)

\* ------------------------------------------------------------------------
\* Python's == between a value and a decoded value, together with the type:
\* sets, dicts and counters compare without their order.
\* ------------------------------------------------------------------------
RECURSIVE PyEq(_, _)
PyEq(a, b) ==
    IF Kind(a) # Kind(b) THEN FALSE
    ELSE CASE Kind(a) \in {"List", "Tuple", "Deque"} ->
                  /\ Len(Pl(a)) = Len(Pl(b))
                  /\ \A i \in 1..Len(Pl(a)) : PyEq(Pl(a)[i], Pl(b)[i])
           [] Kind(a) \in {"Set", "FrozenSet"} ->
                  /\ \A i \in 1..Len(Pl(a)) : \E j \in 1..Len(Pl(b)) : PyEq(Pl(a)[i], Pl(b)[j])
                  /\ \A j \in 1..Len(Pl(b)) : \E i \in 1..Len(Pl(a)) : PyEq(Pl(a)[i], Pl(b)[j])
           [] Kind(a) \in {"Dict", "Counter"} ->
                  /\ \A i \in 1..Len(Pl(a)) : \E j \in 1..Len(Pl(b)) :
                        PyEq(Pl(a)[i][1], Pl(b)[j][1]) /\ PyEq(Pl(a)[i][2], Pl(b)[j][2])
                  /\ \A j \in 1..Len(Pl(b)) : \E i \in 1..Len(Pl(a)) :
                        PyEq(Pl(a)[i][1], Pl(b)[j][1]) /\ PyEq(Pl(a)[i][2], Pl(b)[j][2])
           [] Kind(a) = "NamedTuple" ->
                  /\ Pl(a)[1] = Pl(b)[1]
                  /\ Len(Pl(a)[2]) = Len(Pl(b)[2])
                  /\ \A i \in 1..Len(Pl(a)[2]) :
                        /\ Pl(a)[2][i][1] = Pl(b)[2][i][1]
                        /\ PyEq(Pl(a)[2][i][2], Pl(b)[2][i][2])
           [] OTHER -> a = b

\* ------------------------------------------------------------------------
\* from_any_value one call at a time.  The C stack of the recursion is the
\* sequence frames: a frame is a composite encoder inside its loop, with the
\* calls its loop still has to make (tasks) and the index of the next one.
\* A task is <<"any", v>> for from_any_value(vd, v), <<"str", cps>> for
\* from_string and <<"int", v>> for the from_integer of a Counter's value.
\* ------------------------------------------------------------------------
Children(value) ==
    Let(Pl(value), LAMBDA pl :
        CASE Kind(value) \in {"List", "Tuple", "Set", "FrozenSet", "Deque"} ->
                 [i \in 1..Len(pl) |-> <<"any", pl[i]>>]
          [] Kind(value) = "Dict" ->
                 [i \in 1..(2 * Len(pl)) |-> <<"any", pl[(i + 1) \div 2][2 - (i % 2)]>>]
          [] Kind(value) = "Counter" ->
                 [i \in 1..(2 * Len(pl)) |->
                     <<IF i % 2 = 1 THEN "any" ELSE "int", pl[(i + 1) \div 2][2 - (i % 2)]>>]
          [] Kind(value) = "NamedTuple" ->
                 [i \in 1..(2 * Len(pl[2])) |->
                     <<IF i % 2 = 1 THEN "str" ELSE "any", pl[2][(i + 1) \div 2][2 - (i % 2)]>>])

\* The composite encoder that from_any_value enters for value, up to its loop.
Enter(vd, value) ==
    CASE Kind(value) = "List" -> from_list_enter(vd, Pl(value))
      [] Kind(value) = "Tuple" -> from_tuple_enter(vd, Pl(value))
      [] Kind(value) = "Set" -> from_iterable_enter(vd, Pl(value), SET_E)
      [] Kind(value) = "FrozenSet" -> from_iterable_enter(vd, Pl(value), FSET_E)
      [] Kind(value) = "Deque" -> from_iterable_enter(vd, Pl(value), DEQUE_E)
      [] Kind(value) = "Dict" -> from_dict_enter(vd, Pl(value))
      [] Kind(value) = "Counter" -> from_counter_enter(vd, Pl(value))
      [] Kind(value) = "NamedTuple" -> from_namedtuple_enter(vd, Pl(value))

\* A call that enters no composite encoder, made whole.
Leaf(vd, task) ==
    CASE task[1] = "str" -> from_string(vd, task[2])
      [] task[1] = "int" -> from_counter_value(vd, task[2])
      [] OTHER -> from_any_value(vd, task[2])

\* The return of the composite encoder of kind: vd->nests-- where it counted.
Leave(vd, kind) ==
    IF kind \in NestKinds THEN LeaveNest(Ret(SC_SUCCESS, vd)).vd ELSE vd

\* ------------------------------------------------------------------------
\* The values the codec is run on.
\* ------------------------------------------------------------------------
\* Bounds.
MaxDepth == MAX_NESTS   \* deepest nesting encoded
WideLen == 256          \* the first length that needs two length bytes
WidestLen == 65536      \* the first length that needs three length bytes
MaxPrefix == 48         \* buffers up to this length have every prefix decoded

Fill(n) == [i \in 1..n |-> i % 256]

SmallSamples ==
    { Str(<<>>), Str(<<65>>), Str(<<200, 66>>),
      IntV(0), IntV(1), IntV(-1), IntV(127), IntV(128), IntV(-128), IntV(-129),
      IntV(255), IntV(70000), IntV(-70000),
      <<"Int", [neg |-> FALSE, mag |-> <<1, 2, 3, 4, 5, 6>>]>>,
      Bool(TRUE), Bool(FALSE), NoneV, EllipsisV,
      <<"Float", <<0, 0, 0, 0, 0, 0, 248, 63>>>>,
      <<"Complex", <<<<0, 0, 0, 0, 0, 0, 240, 63>>, <<0, 0, 0, 0, 0, 0, 0, 192>>>>>>,
      Bytes(<<>>), Bytes(<<1, 2>>), ByteArray(<<>>), ByteArray(<<7>>),
      MemoryView(<<>>), MemoryView(<<9, 8>>),
      TimeDelta(-1, 5, 70000),
      <<"DateTime", <<50, 48, 50, 52, 45, 48, 49, 45, 48, 50, 84, 48, 51, 58, 48, 52, 58, 48, 53>>>>,
      <<"Date", <<50, 48, 50, 52, 45, 48, 49, 45, 48, 50>>>>,
      <<"Time", <<48, 51, 58, 48, 52, 58, 48, 53>>>>,
      <<"Decimal", <<49, 46, 53>>>>,
      <<"UUID", [i \in 1..32 |-> IF i % 2 = 0 THEN 97 ELSE 49]>>,
      Range(0, 10, 2),
      List(<<>>), List(<<Bool(TRUE), Bool(FALSE)>>),
      List(<<List(<<IntV(1)>>), Str(<<65>>)>>),
      List(<<MemoryView(<<>>), Bool(TRUE)>>),
      Tuple(<<>>), Tuple(<<IntV(1), NoneV>>),
      SetV(<<>>), SetV(<<IntV(1), IntV(2)>>),
      FrozenSet(<<>>), FrozenSet(<<Str(<<65>>)>>),
      Deque(<<>>), Deque(<<IntV(1)>>),
      Dict(<<>>), Dict(<<<<Str(<<97>>), IntV(1)>>>>),
      Counter(<<>>), Counter(<<<<Str(<<97>>), IntV(3)>>>>),
      NamedTuple(<<80>>, <<>>),
      NamedTuple(<<80>>, <<<<<<120>>, IntV(1)>>, <<<<121>>, List(<<>>)>>>>),
      <<"Object", <<>>>>, List(<<<<"Object", <<>>>>>>) }

\* Lengths on either side of a change of width variant.
WideSamples ==
    { Bytes(Fill(WideLen - 1)), Bytes(Fill(WideLen)), ByteArray(Fill(WideLen)),
      MemoryView(Fill(WideLen)), Bytes(Fill(WidestLen - 1)), Bytes(Fill(WidestLen)),
      List([i \in 1..WideLen |-> Bool(TRUE)]),
      <<"Int", [neg |-> FALSE, mag |-> Fill(WideLen - 2)]>>,
      <<"Int", [neg |-> FALSE, mag |-> Fill(WideLen - 1)]>> }

\* Nest(kind, depth) stands for depth composites of one kind inside each
\* other, the innermost one empty; Unfold writes the outermost one out.
Nest(kind, depth) == <<"Nest", <<kind, depth>>>>

Unfold(v) ==
    IF Kind(v) # "Nest" THEN v
    ELSE Let(Pl(v)[1], LAMBDA kind :
             Let(Pl(v)[2], LAMBDA depth :
             Let(Nest(kind, depth - 1), LAMBDA inner :
             IF depth = 1 THEN
                 IF kind = "NamedTuple" THEN NamedTuple(<<80>>, <<>>) ELSE <<kind, <<>>>>
             ELSE CASE kind = "Dict" -> Dict(<<<<IntV(0), inner>>>>)
                    [] kind = "NamedTuple" -> NamedTuple(<<80>>, <<<<<<120>>, inner>>>>)
                    [] OTHER -> <<kind, <<inner>>>>)))

DeepKinds == {"List", "Tuple", "Dict", "FrozenSet", "Deque", "NamedTuple"}

\* The inputs: the value, its composite nesting depth, and how many
\* allocations of the encoder succeed (-1: all).
Deepest(S) == IF S = {} THEN 0 ELSE CHOOSE d \in S : \A e \in S : e <= d

RECURSIVE DepthOf(_)
DepthOf(v) ==
    IF Kind(v) \in CompositeKinds
    THEN 1 + Deepest({DepthOf(Children(v)[i][2]) : i \in
                         {j \in 1..Len(Children(v)) : Children(v)[j][1] = "any"}})
    ELSE 0

\* Eleven elements, the first nones of them None in one byte, the others
\* the Int 1 in two; Brimful takes 18 bytes.
Brim(nones) == [i \in 1..11 |-> IF i <= nones THEN NoneV ELSE IntV(1)]
Brimful == Brim(4)

Inputs ==
    {[value |-> v, depth |-> DepthOf(v), allocs |-> -1, class |-> "small"] :
        v \in SmallSamples}
      \cup {[value |-> v, depth |-> DepthOf(v), allocs |-> -1, class |-> "wide"] :
               v \in WideSamples}
      \cup {[value |-> v, depth |-> DepthOf(v), allocs |-> a, class |-> "small"] :
               v \in {Str(<<65>>), List(<<Bool(TRUE), Bool(FALSE)>>)}, a \in {0, 1}}
      \* a List that outgrows the estimate of init_vd, with 0, 1 and 2
      \* allocations succeeding
      \cup {[value |-> List(<<Bytes(Fill(WideLen - 1)), Bytes(Fill(WideLen))>>),
             depth |-> 1, allocs |-> a, class |-> "wide"] : a \in {0, 1, 2}}
      \* a List whose last element, an Int of WideLen bytes, finds exactly
      \* the room its encoder asks auto_resize_vd for (Brimful), and Lists
      \* with one byte more and one byte less written before it
      \cup {[value |-> List(front \o <<<<"Int", [neg |-> FALSE, mag |-> Fill(WideLen - 1)]>>>>),
             depth |-> 1, allocs |-> -1, class |-> "wide"] :
               front \in {Brim(3), Brimful, Brim(5)}}
      \cup {[value |-> Nest(k, d), depth |-> d, allocs |-> -1, class |-> "deep"] :
               k \in DeepKinds, d \in {MaxDepth - 1, MaxDepth}}
      \cup {[value |-> List(<<Nest("NamedTuple", MaxDepth - 1)>>), depth |-> MaxDepth,
             allocs |-> -1, class |-> "deep"],
            [value |-> NamedTuple(<<80>>, <<<<<<120>>, Nest("List", MaxDepth - 1)>>>>),
             depth |-> MaxDepth, allocs |-> -1, class |-> "deep"]}

\* What the heap may hold behind a buffer.
JunkTails ==
    { <<>>, [i \in 1..16 |-> 255],
      <<DATETIME_TD, 1, 0, 0, 0, 2, 0, 0, 0, 3, 0, 0, 0>> }

PrefixLens(b) ==
    IF Len(b) <= MaxPrefix THEN 0..(Len(b) - 1)
    ELSE {0, 1, 2, 3, 4, Len(b) - 1}

\* The second element of the two-element lists that are decoded.
Companions == {Bool(TRUE), Str(<<65>>)}

\* ------------------------------------------------------------------------
\* State.
\*   inp      the codec's input (Inputs), or NoInput
\*   enc      from_value under way: phase, vd, the status of init_vd (isc) and
\*            of the traversal (sc), and the frames
\*   out      what from_value returned
\*   dec      the last decode: how it was set up and what to_value returned
\*   shmName  the object the segment name is bound to, 0 for none
\*   shmObjs  the shared memory objects ever created
\*   procs    the processes using membridge
\*   hist     the membridge calls made and their returns
\* ------------------------------------------------------------------------
VARIABLES inp, enc, out, dec, shmName, shmObjs, procs, hist

vars == <<inp, enc, out, dec, shmName, shmObjs, procs, hist>>
codecVars == <<inp, enc, out, dec>>
memVars == <<shmName, shmObjs, procs, hist>>

NoInput == [value |-> NULL, depth |-> 0, allocs |-> -1, class |-> "none"]
NoEnc == [phase |-> "off", vd |-> <<>>, isc |-> SC_SUCCESS, sc |-> SC_SUCCESS,
          frames |-> <<>>]
NoOut == [ok |-> FALSE, bytes |-> <<>>, sc |-> SC_SUCCESS, err |-> "none", vd |-> <<>>]
NoDec == [how |-> "none"]

\* ------------------------------------------------------------------------
\* The codec: from_value on an input, then to_value on what it returned.
\* ------------------------------------------------------------------------
\* from_value up to its call of from_any_value: init_vd.
FromValueInit ==
    /\ enc.phase = "start"
    /\ LET i == init_vd(inp.value, inp.allocs)
       IN  enc' = [phase |-> IF i.sc = SC_EXCEPTION THEN "ret" ELSE "run",
                   vd |-> i.vd, isc |-> i.sc, sc |-> SC_SUCCESS,
                   frames |-> <<[kind |-> "root", tasks |-> <<<<"any", inp.value>>>>,
                                 i |-> 1]>>]
    /\ UNCHANGED <<inp, out, dec, memVars>>

\* The next call or return of the traversal.
FromAnyValueStep ==
    /\ enc.phase = "run"
    /\ LET n == Len(enc.frames)
           f == enc.frames[n]
           task == f.tasks[f.i]
           below == [enc.frames EXCEPT ![n].i = @ + 1]
       IN  IF f.i > Len(f.tasks)
           THEN \* the loop is over: the encoder returns SC_SUCCESS
                enc' = [enc EXCEPT !.vd = Leave(enc.vd, f.kind),
                                   !.frames = Take(enc.frames, n - 1),
                                   !.phase = IF n = 1 THEN "ret" ELSE "run"]
           ELSE IF task[1] = "any" /\ Kind(Unfold(task[2])) \in CompositeKinds
           THEN LET value == Unfold(task[2])
                    e == Enter(enc.vd, value)
                IN  IF e.sc # SC_SUCCESS
                    THEN enc' = [enc EXCEPT !.vd = e.vd, !.sc = e.sc, !.phase = "ret"]
                    ELSE enc' = [enc EXCEPT !.vd = e.vd,
                                     !.frames = Append(below,
                                         [kind |-> Kind(value),
                                          tasks |-> Children(value), i |-> 1])]
           ELSE LET r == Leaf(enc.vd, task)
                IN  IF r.sc # SC_SUCCESS
                    THEN enc' = [enc EXCEPT !.vd = r.vd, !.sc = r.sc, !.phase = "ret"]
                    ELSE enc' = [enc EXCEPT !.vd = r.vd, !.frames = below]
    /\ UNCHANGED <<inp, out, dec, memVars>>

\* from_value after from_any_value: the bytes object or the exception.
FromValueReturn ==
    /\ enc.phase = "ret"
    /\ out' = from_value_end(Ret(enc.isc, enc.vd), Ret(enc.sc, enc.vd))
    /\ enc' = [enc EXCEPT !.phase = "done", !.frames = <<>>]
    /\ UNCHANGED <<inp, dec, memVars>>

\* The encodings that are decoded: not the deep ones and not the long list.
Decodable ==
    /\ enc.phase = "done"
    /\ out.ok
    /\ inp.class # "deep"
    /\ (Kind(inp.value) = "List" => Len(Pl(inp.value)) < WideLen)

\* to_value on the encoding.
ToValue ==
    /\ Decodable
    /\ dec' = [how |-> "whole", bytes |-> out.bytes, r |-> to_value(out.bytes)]
    /\ UNCHANGED <<inp, enc, out, memVars>>

\* to_value on a proper prefix of the encoding, the heap behind it holding
\* any of JunkTails.
ToValuePrefix ==
    /\ Decodable
    /\ \E k \in PrefixLens(out.bytes), tail \in JunkTails :
          dec' = [how |-> "prefix", bytes |-> Take(out.bytes, k), tail |-> tail,
                  r |-> to_value_t(Take(out.bytes, k), tail)]
    /\ UNCHANGED <<inp, enc, out, memVars>>

\* to_value on the protocol byte, a List tag with length 2, and the encodings
\* of the input and of a companion, in either order.
ToValueList ==
    /\ Decodable
    /\ inp.class = "small"
    /\ \E w \in Companions, first \in BOOLEAN :
          LET mine == Tail(out.bytes)
              elems == IF first THEN <<inp.value, w>> ELSE <<w, inp.value>>
              bytes == <<PROT_SBS_D, LIST_1, 2>>
                         \o (IF first THEN mine \o Body(w) ELSE Body(w) \o mine)
          IN  dec' = [how |-> "list", bytes |-> bytes, elems |-> elems,
                      r |-> to_value(bytes)]
    /\ UNCHANGED <<inp, enc, out, memVars>>

\* The first bytes to_value is given in place of the protocol marker.
Markers == {0, BOOL_T, PROT_2 - 1, PROT_2, PROT_1, EXT_M}

\* to_value on the encoding with its first byte replaced by a marker; with
\* the legacy marker, for the second bytes the legacy decoder is unfolded for.
ToValueMarked ==
    /\ Decodable
    /\ inp.class = "small"
    /\ \E m \in Markers :
          /\ m = PROT_1 => out.bytes[2] \in Sbs1Decoded
          /\ LET bytes == <<m>> \o Tail(out.bytes)
             IN  dec' = [how |-> "marked", bytes |-> bytes, r |-> to_value(bytes)]
    /\ UNCHANGED <<inp, enc, out, memVars>>

\* Counts of length bytes on either side of the comparisons of write_E12D.
Widths == {0, 1, 2, 3, 255, 256, 257, WidestLen}

\* The switch of write_E12D on num_bytes, for a Bytes of any length.
WriteE12DBranch ==
    /\ enc.phase = "done"
    /\ Kind(inp.value) = "Bytes"
    /\ \E num_bytes \in Widths :
          dec' = [how |-> "branch", num_bytes |-> num_bytes,
                  variant |-> E12D_variant(num_bytes)]
    /\ UNCHANGED <<inp, enc, out, memVars>>

\* What may follow an encoding in the payload read_memory decodes: the zeros
\* of the headroom, one stray byte, and the end of an earlier, longer write.
Tails ==
    { [i \in 1..32 |-> 0], <<BOOL_T>>, <<255>>,
      <<65, 66, DATETIME_TD, 1, 0, 0, 0, 2, 0, 0, 0, 3, 0, 0, 0>> }

\* to_value on the encoding with a tail appended to it.
ToValueTailed ==
    /\ Decodable
    /\ \E t \in Tails :
          dec' = [how |-> "tailed", bytes |-> out.bytes \o t, t |-> t,
                  r |-> to_value(out.bytes \o t)]
    /\ UNCHANGED <<inp, enc, out, memVars>>

\* ------------------------------------------------------------------------
\* membridge (membridge.c 18-287).  A shared memory object is its size, the
\* two fields of the BasicShm at its start and the payload bytes behind it; an
\* object lives on after shm_unlink for those who hold it open or mapped.
\*   mutex    <<"zero">> as ftruncate leaves it, <<"free">> after
\*            pthread_mutex_init, <<"held", p>> while process p holds the lock
\* ------------------------------------------------------------------------
BASIC_SIZE == 48    \* sizeof(BasicShm): a size_t and a pthread_mutex_t, LP64
HEAD_SIZE == 32

\* Bounds.
MaxCalls == 2       \* membridge calls made in a behaviour
MaxObjs == 2        \* shared memory objects there are in a behaviour

Procs == {1, 2}
WriteValues == {Str(<<65, 66>>), Str(<<67, 68>>), Bytes(<<>>)}
PreSizes == {0, 8}

\* freed: Py_DECREF(py_bytes) has dropped the call's one reference to the
\* bytes object whose buffer bytes points into.
IdleProc ==
    [pc |-> "idle", op |-> "none", value |-> NULL, bytes |-> <<>>, new_size |-> 0,
     create |-> "none", pre_size |-> 0, error_if_exists |-> FALSE, caller |-> "none",
     fd |-> 0, max_size |-> 0, total_size |-> 0, shm |-> 0, split |-> 0,
     since |-> 0, last |-> <<>>, ret |-> <<"none">>, freed |-> FALSE]

\* hist: the values write_memory was called with, the calls made, the
\* writes and removes called (seq), the value of the last write_memory that
\* returned after growing the segment with no other write or remove since its
\* call (last), and whether a memcpy has read a released buffer that no
\* longer held its bytes; pre says that the name was bound when the behaviour
\* began; stray holds the operations that have called pthread_mutex_unlock
\* on a mutex they did not hold.
NoHist ==
    [written |-> {}, calls |-> 0, seq |-> 0, last |-> <<>>, clobbered |-> FALSE,
     pre |-> FALSE, stray |-> {}]

MemInit ==
    /\ shmName = 0
    /\ shmObjs = <<>>
    /\ procs = [p \in Procs |-> IdleProc]
    /\ hist = NoHist

\* The name bound from the start, to the segment a create_memory(name,
\* prealloc_size) of an earlier process has left: a header and a payload of
\* prealloc_size zeros.
MemLeft ==
    /\ shmName = 1
    /\ \E pre_size \in PreSizes :
          shmObjs = <<[size |-> BASIC_SIZE + pre_size, max_size |-> pre_size,
                       mutex |-> <<"free">>, data |-> [i \in 1..pre_size |-> 0]]>>
    /\ procs = [p \in Procs |-> IdleProc]
    /\ hist = [NoHist EXCEPT !.pre = TRUE]

\* ftruncate(fd, size): the payload cut or extended with zeros.
Resize(obj, size) ==
    [obj EXCEPT !.size = size,
                !.data = [i \in 1..(IF size > BASIC_SIZE THEN size - BASIC_SIZE ELSE 0)
                             |-> IF i <= Len(obj.data) THEN obj.data[i] ELSE 0]]

\* What a read of the buffer of a freed bytes object may give: the bytes it
\* held, or the 0xDD the debug allocator fills freed memory with.
Freed(bytes) == {bytes, [i \in 1..Len(bytes) |-> 221]}

\* The places at which the two halves of memcpy's work are told apart.
Splits(size) == {size \div 2, size - 1}

Becomes(p, rec) == procs' = [procs EXCEPT ![p] = rec]
\* What is left of a call once it is over: the operation, what it was called
\* with and what it gave.
Over(q, pc, ret) ==
    [IdleProc EXCEPT !.pc = pc, !.op = q.op, !.since = q.since, !.last = q.last,
                     !.ret = ret]
Returns(p, ret) == Becomes(p, Over(procs[p], "done", ret))
Crashes(p) == Becomes(p, Over(procs[p], "crashed", <<"signal", "SIGBUS">>))

\* A local variable of a call is put back to its idle value by the step after
\* which the code no longer reads it.
\* The processes are alike: the one with the lower number calls first.
CanCall(p) ==
    /\ procs[p].pc \in {"idle", "done"}
    /\ hist.calls < MaxCalls
    /\ \A o \in Procs : o < p => procs[o].pc # "idle"

\* Every size here is far below a page, so a mapping of an object that has a
\* size reaches the whole payload: bytes past the end of the object read as
\* zero and writes to them do not reach it.  An object of size 0 has no page,
\* and touching its mapping raises SIGBUS.
Payload(obj, n) == [i \in 1..n |-> IF i <= Len(obj.data) THEN obj.data[i] ELSE 0]

Store(obj, from, to, bytes) ==
    [obj EXCEPT !.data = [i \in 1..Len(obj.data)
                             |-> IF i >= from /\ i <= to THEN bytes[i] ELSE obj.data[i]]]

Called(p) == IdleProc

\* write_memory, up to its call of get_shm: the value is encoded and the
\* bytes object released, its buffer still pointed to by bytes.
write_memory(p) ==
    /\ CanCall(p)
    /\ \E value \in WriteValues, create \in {"omitted", "true", "false"} :
         LET r == from_value(value) IN
         /\ hist' = [hist EXCEPT !.calls = @ + 1, !.seq = @ + 1, !.last = <<>>,
                                 !.written = @ \cup {value}]
         /\ IF r.ok
              THEN Becomes(p, [Called(p) EXCEPT !.pc = "get_shm", !.op = "write_memory",
                                   !.value = value, !.bytes = r.bytes,
                                   !.freed = TRUE,
                                   !.since = hist.seq + 1,
                                   !.new_size = Len(r.bytes), !.create = create])
              ELSE Becomes(p, Over([Called(p) EXCEPT !.op = "write_memory", !.value = value],
                                   "done", <<"error", r.err>>))
    /\ UNCHANGED <<shmName, shmObjs, codecVars>>

\* read_memory, up to its call of get_shm(name, 0, Py_None).
read_memory(p) ==
    /\ CanCall(p)
    /\ hist' = [hist EXCEPT !.calls = @ + 1]
    /\ Becomes(p, [Called(p) EXCEPT !.pc = "get_shm", !.op = "read_memory",
                       !.create = "None", !.since = hist.seq,
                       !.last = hist.last])
    /\ UNCHANGED <<shmName, shmObjs, codecVars>>

\* create_memory, up to its call of create_shared_memory.
create_memory(p) ==
    /\ CanCall(p)
    /\ \E prealloc_size \in PreSizes, error_if_exists \in BOOLEAN :
         Becomes(p, [Called(p) EXCEPT !.pc = "create_shared_memory",
                         !.op = "create_memory", !.caller = "create_memory",
                         !.pre_size = prealloc_size,
                         !.error_if_exists = error_if_exists])
    /\ hist' = [hist EXCEPT !.calls = @ + 1]
    /\ UNCHANGED <<shmName, shmObjs, codecVars>>

\* remove_memory answering True whatever shm_unlink returned.
remove_memory_true(p) ==
    /\ CanCall(p)
    /\ Becomes(p, Over([Called(p) EXCEPT !.op = "remove_memory"], "done",
                       <<"value", Bool(TRUE)>>))
    /\ shmName' = 0
    /\ hist' = [hist EXCEPT !.calls = @ + 1, !.seq = @ + 1, !.last = <<>>]
    /\ UNCHANGED <<shmObjs, codecVars>>

\* remove_memory: shm_unlink and the answer.
remove_memory(p) ==
    /\ CanCall(p)
    /\ \E throw_error \in BOOLEAN :
         Becomes(p, Over([Called(p) EXCEPT !.op = "remove_memory"], "done",
                         IF shmName # 0 THEN <<"value", Bool(TRUE)>>
                         ELSE IF throw_error THEN <<"error", "MemoryError">>
                         ELSE <<"value", Bool(FALSE)>>))
    /\ shmName' = 0
    /\ hist' = [hist EXCEPT !.calls = @ + 1, !.seq = @ + 1, !.last = <<>>]
    /\ UNCHANGED <<shmObjs, codecVars>>

\* create_shared_memory: shm_open(O_CREAT | O_EXCL) and the EEXIST answers.
create_shared_memory_open(p) ==
    LET q == procs[p] IN
    /\ q.pc = "create_shared_memory"
    /\ IF shmName # 0
         THEN /\ IF q.caller = "get_shm"
                   THEN Becomes(p, [q EXCEPT !.pc = "get_shm_reopen", !.caller = "none"])
                   ELSE Returns(p, IF q.error_if_exists
                                     THEN <<"error", "MemoryError">>
                                     ELSE <<"value", Bool(FALSE)>>)
              /\ UNCHANGED <<shmName, shmObjs>>
         ELSE /\ Len(shmObjs) < MaxObjs
              /\ shmObjs' = Append(shmObjs, [size |-> 0, max_size |-> 0,
                                             mutex |-> <<"zero">>, data |-> <<>>])
              /\ shmName' = Len(shmObjs) + 1
              /\ Becomes(p, [q EXCEPT !.pc = "create_ftruncate", !.fd = Len(shmObjs) + 1])
    /\ UNCHANGED <<hist, codecVars>>

\* create_shared_memory: ftruncate(fd, BASIC_SIZE + pre_size).
create_shared_memory_ftruncate(p) ==
    LET q == procs[p] IN
    /\ q.pc = "create_ftruncate"
    /\ shmObjs' = [shmObjs EXCEPT ![q.fd] = Resize(@, BASIC_SIZE + q.pre_size)]
    /\ Becomes(p, [q EXCEPT !.pc = "create_mutex"])
    /\ UNCHANGED <<shmName, hist, codecVars>>

\* create_shared_memory: the header mapped and its mutex initialised.
create_shared_memory_mutex(p) ==
    LET q == procs[p] IN
    /\ q.pc = "create_mutex"
    /\ shmObjs' = [shmObjs EXCEPT ![q.fd].mutex = <<"free">>]
    /\ Becomes(p, [q EXCEPT !.pc = "create_max_size"])
    /\ UNCHANGED <<shmName, hist, codecVars>>

\* create_shared_memory leaving max_size as ftruncate made it.
create_shared_memory_max_size_unset(p) ==
    LET q == procs[p] IN
    /\ q.pc = "create_max_size"
    /\ IF q.caller = "get_shm"
         THEN Becomes(p, [q EXCEPT !.pc = "get_shm_reopen", !.fd = 0, !.caller = "none"])
         ELSE Returns(p, <<"value", Bool(TRUE)>>)
    /\ UNCHANGED <<shmName, shmObjs, hist, codecVars>>

\* create_shared_memory: max_size set, the header unmapped, fd closed, 0
\* returned to create_memory or to get_shm.
create_shared_memory_max_size(p) ==
    LET q == procs[p] IN
    /\ q.pc = "create_max_size"
    /\ shmObjs' = [shmObjs EXCEPT ![q.fd].max_size = q.pre_size]
    /\ IF q.caller = "get_shm"
         THEN Becomes(p, [q EXCEPT !.pc = "get_shm_reopen", !.fd = 0, !.caller = "none"])
         ELSE Returns(p, <<"value", Bool(TRUE)>>)
    /\ UNCHANGED <<shmName, hist, codecVars>>

\* get_shm taking every create that is not NULL for true.
get_shm_open_truthy(p) ==
    LET q == procs[p] IN
    /\ q.pc = "get_shm"
    /\ IF shmName # 0
         THEN Becomes(p, [q EXCEPT !.pc = "get_shm_header", !.fd = shmName,
                                   !.create = "none"])
         ELSE Becomes(p, [q EXCEPT !.pc = "create_shared_memory", !.caller = "get_shm",
                              !.pre_size = 0, !.error_if_exists = FALSE,
                              !.create = "none"])
    /\ UNCHANGED <<shmName, shmObjs, hist, codecVars>>

\* get_shm: shm_open(name, O_RDWR) and what follows ENOENT.
get_shm_open(p) ==
    LET q == procs[p] IN
    /\ q.pc = "get_shm"
    /\ IF shmName # 0
         THEN Becomes(p, [q EXCEPT !.pc = "get_shm_header", !.fd = shmName,
                                   !.create = "none"])
         ELSE IF q.create \in {"omitted", "true"}
           THEN Becomes(p, [q EXCEPT !.pc = "create_shared_memory", !.caller = "get_shm",
                                !.pre_size = 0, !.error_if_exists = FALSE,
                                !.create = "none"])
           ELSE Returns(p, <<"error", "MemoryError">>)
    /\ UNCHANGED <<shmName, shmObjs, hist, codecVars>>

\* get_shm: the second shm_open, after create_shared_memory.
get_shm_reopen(p) ==
    LET q == procs[p] IN
    /\ q.pc = "get_shm_reopen"
    /\ IF shmName # 0
         THEN Becomes(p, [q EXCEPT !.pc = "get_shm_header", !.fd = shmName])
         ELSE Returns(p, <<"error", "MemoryError">>)
    /\ UNCHANGED <<shmName, shmObjs, hist, codecVars>>

\* get_shm: the header mapped, max_size read from it, the header unmapped.
get_shm_header(p) ==
    LET q == procs[p]
        obj == shmObjs[q.fd]
    IN
    /\ q.pc = "get_shm_header"
    /\ IF obj.size < BASIC_SIZE
         THEN Crashes(p)
         ELSE Becomes(p, [q EXCEPT !.pc = IF q.new_size > obj.max_size
                                            THEN "get_shm_ftruncate" ELSE "get_shm_map",
                                   !.max_size = obj.max_size,
                                   !.total_size = BASIC_SIZE + obj.max_size])
    /\ UNCHANGED <<shmName, shmObjs, hist, codecVars>>

\* get_shm: ftruncate(fd, BASIC_SIZE + new_size + HEAD_SIZE) of the branch
\* new_size > max_size.
get_shm_ftruncate(p) ==
    LET q == procs[p]
        total_size == BASIC_SIZE + q.new_size + HEAD_SIZE
    IN
    /\ q.pc = "get_shm_ftruncate"
    /\ shmObjs' = [shmObjs EXCEPT ![q.fd] = Resize(@, total_size)]
    /\ Becomes(p, [q EXCEPT !.pc = "get_shm_map", !.total_size = total_size])
    /\ UNCHANGED <<shmName, hist, codecVars>>

\* get_shm: the whole object mapped, max_size raised if it is below
\* new_size, fd closed, the mapping returned.
get_shm_map(p) ==
    LET q == procs[p]
        obj == shmObjs[q.fd]
    IN
    /\ q.pc = "get_shm_map"
    /\ shmObjs' = [shmObjs EXCEPT ![q.fd].max_size =
                       IF @ < q.new_size THEN q.new_size + HEAD_SIZE ELSE @]
    /\ Becomes(p, [q EXCEPT !.pc = IF q.op = "write_memory" THEN "memcpy" ELSE "read",
                            !.shm = q.fd, !.fd = 0, !.total_size = 0])
    /\ UNCHANGED <<shmName, hist, codecVars>>

\* write_memory: the first part of memcpy(shm + BASIC_SIZE, bytes, size),
\* reading the released buffer.
write_memory_memcpy(p) ==
    LET q == procs[p] IN
    /\ q.pc = "memcpy"
    /\ \E bytes \in Freed(q.bytes), split \in Splits(q.new_size) :
         /\ shmObjs' = [shmObjs EXCEPT ![q.shm] = Store(@, 1, split, bytes)]
         /\ Becomes(p, [q EXCEPT !.pc = "memcpy_rest", !.bytes = bytes, !.split = split])
         /\ hist' = [hist EXCEPT !.clobbered = @ \/ bytes # q.bytes]
    /\ UNCHANGED <<shmName, codecVars>>

\* write_memory: the rest of the memcpy.
write_memory_memcpy_rest(p) ==
    LET q == procs[p] IN
    /\ q.pc = "memcpy_rest"
    /\ shmObjs' = [shmObjs EXCEPT ![q.shm] = Store(@, q.split + 1, q.new_size, q.bytes)]
    /\ Becomes(p, [q EXCEPT !.pc = "close_shm", !.ret = <<"value", Bool(TRUE)>>,
                            !.bytes = <<>>, !.split = 0])
    /\ UNCHANGED <<shmName, hist, codecVars>>

\* read_memory: None for max_size 0, else max_size bytes of the payload
\* copied into a bytes object and decoded.
read_memory_read(p) ==
    LET q == procs[p]
        obj == shmObjs[q.shm]
        py_bytes == Payload(obj, obj.max_size)
        r == to_value(py_bytes)
    IN
    /\ q.pc = "read"
    /\ Becomes(p, [q EXCEPT !.pc = "close_shm",
                            !.ret = IF obj.max_size = 0 THEN <<"value", NoneV>>
                                    ELSE IF r.ok THEN <<"value", r.val>>
                                    ELSE <<"error", r.err>>])
    /\ UNCHANGED <<shmName, shmObjs, hist, codecVars>>

\* pthread_mutex_unlock(&mutex) by process p: the mutexes it may leave.  The
\* mutex is of the default type, for which an unlock by another than the
\* holder is undefined: it releases the lock, or fails and leaves it.
pthread_mutex_unlock(mutex, p) ==
    IF mutex = <<"held", p>> THEN {<<"free">>}
    ELSE IF mutex[1] = "held" THEN {<<"free">>, mutex}
    ELSE {mutex}

\* close_shm: pthread_mutex_unlock, whoever holds the mutex, then munmap of
\* BASIC_SIZE + max_size as max_size is now; the operation returns.
close_shm(p) ==
    LET q == procs[p]
        obj == shmObjs[q.shm]
        writing == {o \in Procs \ {p} : procs[o].op = "write_memory"
                                         /\ procs[o].pc \notin {"done", "crashed"}}
    IN
    /\ q.pc = "close_shm"
    /\ \E mutex \in pthread_mutex_unlock(obj.mutex, p) :
          shmObjs' = [shmObjs EXCEPT ![q.shm].mutex = mutex]
    /\ Returns(p, q.ret)
    /\ hist' = [hist EXCEPT
           !.stray = IF obj.mutex = <<"held", p>> THEN @ ELSE @ \cup {q.op},
           !.last = IF q.op = "write_memory"
                      THEN IF q.new_size > q.max_size /\ writing = {} /\ hist.seq = q.since
                             THEN <<q.value>> ELSE <<>>
                      ELSE @]
    /\ UNCHANGED <<shmName, codecVars>>

Init ==
    /\ inp = NoInput
    /\ enc = NoEnc
    /\ out = NoOut
    /\ dec = NoDec
    /\ (MemInit \/ MemLeft)

Next ==
    \E p \in Procs :
        \/ write_memory(p)
        \/ read_memory(p)
        \/ create_memory(p)
        \/ remove_memory(p)
        \/ create_shared_memory_open(p)
        \/ create_shared_memory_ftruncate(p)
        \/ create_shared_memory_mutex(p)
        \/ create_shared_memory_max_size(p)
        \/ get_shm_open(p)
        \/ get_shm_reopen(p)
        \/ get_shm_header(p)
        \/ get_shm_ftruncate(p)
        \/ get_shm_map(p)
        \/ write_memory_memcpy(p)
        \/ write_memory_memcpy_rest(p)
        \/ read_memory_read(p)
        \/ close_shm(p)

Spec == Init /\ [][Next]_vars

CodecInit ==
    /\ inp \in Inputs
    /\ enc = [NoEnc EXCEPT !.phase = "start"]
    /\ out = NoOut
    /\ dec = NoDec
    /\ MemInit

CodecNext ==
    \/ FromValueInit
    \/ FromAnyValueStep
    \/ FromValueReturn
    \/ ToValue
    \/ ToValuePrefix
    \/ ToValueList
    \/ ToValueMarked
    \/ ToValueTailed
    \/ WriteE12DBranch

CodecSpec == CodecInit /\ [][CodecNext]_vars

\* The traversal one call at a time returns what from_value returns at once.
StepwiseAgrees ==
    (enc.phase = "done" /\ inp.class # "deep")
        => out = from_value_a(inp.value, inp.allocs)

\* ------------------------------------------------------------------------
\* Properties of the codec.
\* ------------------------------------------------------------------------
\* A value of the closed set, all the way down.
RECURSIVE Supported(_)
Supported(v) ==
    IF Kind(v) \in CompositeKinds
    THEN \A i \in 1..Len(Children(v)) :
            Children(v)[i][1] = "str" \/ Supported(Children(v)[i][2])
    ELSE Kind(v) \in {"Str", "Int", "Float", "Bool", "Complex", "None", "Ellipsis",
                      "Bytes", "ByteArray", "MemoryView", "Decimal", "UUID",
                      "DateTime", "Date", "Time", "TimeDelta", "Range"}

\* from_value has returned for an input of the closed set with memory to spare.
Encoded ==
    /\ enc.phase = "done"
    /\ inp.allocs = -1
    /\ inp.class # "deep"
    /\ Supported(inp.value)

\* C1: for every supported value v, from_value(v) succeeds and to_value of it
\* succeeds and returns a value equal to v in type and content, sets compared
\* as sets.
C1_RoundTrip ==
    /\ Encoded => out.ok
    /\ (dec.how = "whole" /\ Supported(inp.value))
          => (dec.r.ok /\ PyEq(dec.r.val, inp.value))

\* A negative Int below -128 is refused, and an empty Bytes comes back as an
\* empty ByteArray.
C1_Refused == Encoded /\ inp.value = IntV(-129) /\ ~out.ok /\ out.err = "Exception"
C1_Swapped ==
    /\ dec.how = "whole" /\ inp.value = Bytes(<<>>)
    /\ dec.r.ok /\ dec.r.val = ByteArray(<<>>)

\* C4: to_value on a proper prefix of an encoding succeeds or fails with
\* Truncated, InvalidTag or InvalidProtocol, reads no byte at an index at or
\* past the prefix length, and reads no byte that no successful ensure_offset
\* covered.
C4_PrefixSafety ==
    dec.how = "prefix" =>
        /\ dec.r.ok \/ dec.r.err \in {"Truncated", "InvalidTag", "InvalidProtocol"}
        /\ dec.r.bd.hi < Len(dec.bytes)
        /\ ~dec.r.bd.unens

\* The prefix that is the protocol byte alone has the tag read behind its end.
C4_ReadPastEnd ==
    /\ dec.how = "prefix" /\ Len(dec.bytes) = 1
    /\ dec.r.bd.hi >= Len(dec.bytes)

\* C7: from_value fails with NestDepth for every value nested deeper than 100
\* composites and does not for a value nested at most 100 deep, whichever
\* composite kinds make up the nesting.
C7_DepthBound ==
    (enc.phase = "done" /\ inp.allocs = -1 /\ inp.class = "deep") =>
        IF inp.depth > MAX_NESTS - 1
        THEN ~out.ok /\ out.err = "NestDepth"
        ELSE out.ok

\* 101 NamedTuples inside each other are encoded.
C7_DeepNamedTuple ==
    /\ enc.phase = "done" /\ inp.value = Nest("NamedTuple", MAX_NESTS)
    /\ out.ok

\* C8: the protocol byte, a List tag with length n and the encodings of
\* v1..vn decode to the list [v1, ..., vn], the offset ending behind the last
\* element's bytes.
C8_ListConcat ==
    dec.how = "list" =>
        /\ dec.r.ok
        /\ PyEq(dec.r.val, List(dec.elems))
        /\ dec.r.bd.offset = Len(dec.bytes)

\* An empty MemoryView in front of True decodes to two empty MemoryViews.
C8_MemoryViewTwice ==
    /\ dec.how = "list" /\ dec.elems = <<MemoryView(<<>>), Bool(TRUE)>>
    /\ dec.r.ok /\ dec.r.val = List(<<MemoryView(<<>>), MemoryView(<<>>)>>)

\* The families that have an E tag, with the tag.
ETag(kind) ==
    CASE kind = "Str" -> STR_E
      [] kind = "Bytes" -> BYTES_E
      [] kind = "ByteArray" -> BYTEARR_E
      [] kind = "List" -> LIST_E
      [] kind = "Set" -> SET_E
      [] kind = "Tuple" -> TUPLE_E
      [] kind = "Dict" -> DICT_E
      [] kind = "FrozenSet" -> FSET_E
      [] kind = "MemoryView" -> MEMVIEW_E
      [] kind = "NamedTuple" -> NTUPLE_E
      [] kind = "Deque" -> DEQUE_E
      [] kind = "Counter" -> COUNTER_E

EFamilies == {"Str", "Bytes", "ByteArray", "List", "Set", "Tuple", "Dict",
              "FrozenSet", "MemoryView", "NamedTuple", "Deque", "Counter"}

\* The length a family's tag carries: bytes of payload or number of items.
LengthOf(v) ==
    CASE Kind(v) = "Str" -> Len(PyUnicode_AsUTF8(Pl(v)))
      [] Kind(v) = "NamedTuple" -> Len(Pl(v)[2])
      [] OTHER -> Len(Pl(v))

\* from_value has returned for the empty value of a family with an E tag.
EncodedEmpty ==
    /\ Encoded
    /\ Kind(inp.value) \in EFamilies
    /\ LengthOf(inp.value) = 0

\* C9, as the code has it: the empty value of every family with an E tag
\* other than NamedTuple encodes to the protocol byte and the E tag; an empty
\* NamedTuple encodes to the protocol byte, the E tag and its type name as a
\* Str.
C9_EmptyEncoding ==
    EncodedEmpty =>
        /\ out.ok
        /\ out.bytes = <<PROT_SBS_D, ETag(Kind(inp.value))>>
                          \o (IF Kind(inp.value) = "NamedTuple"
                              THEN Body(Str(Pl(inp.value)[1])) ELSE <<>>)

C9_EmptyNamedTuple ==
    /\ EncodedEmpty /\ Kind(inp.value) = "NamedTuple"
    /\ Len(out.bytes) > 2

\* C9 as stated: the empty value of every family with an E tag, NamedTuple
\* among them, encodes to exactly two bytes, the protocol byte and the E tag.
C9_TwoBytes ==
    EncodedEmpty =>
        /\ out.ok
        /\ out.bytes = <<PROT_SBS_D, ETag(Kind(inp.value))>>

\* The minimal number of little-endian bytes of n, and those bytes.
ByteWidth(n) ==
    CHOOSE k \in 0..3 : n < Pow256(k) /\ (k = 0 \/ n >= Pow256(k - 1))
LittleEndian(n, k) == [i \in 1..k |-> (n \div Pow256(i - 1)) % 256]

\* The tag in front of a family's width variants.
TagBase(kind) == IF kind = "Decimal" THEN DECIMAL_1 - 1 ELSE ETag(kind)

\* C10: a value emitted with a width variant 1, 2, D1 or D2 has as many
\* length bytes as the minimal little-endian width of its length, holding the
\* length, and the variant is the narrowest of its family: 1 up to 255, 2 up
\* to 65535, D1 above, and no width variant for length 0; an Int has D1 for
\* 6 to 255 bytes and D2 above.
C10_NarrowestWidth ==
    /\ (Encoded /\ out.ok /\ Kind(inp.value) \in EFamilies \cup {"Decimal"}) =>
          Let(out.bytes[2] - TagBase(Kind(inp.value)), LAMBDA w :
              Let(LengthOf(inp.value), LAMBDA length :
              Let(out.bytes[3], LAMBDA k :
              /\ w \in 0..3
              /\ (w = 0) = (length = 0)
              /\ w \in {1, 2} =>
                    /\ w = ByteWidth(length)
                    /\ SubSeq(out.bytes, 3, 2 + w) = LittleEndian(length, w)
              /\ w = 3 =>
                    /\ k = ByteWidth(length)
                    /\ k > 2
                    /\ SubSeq(out.bytes, 4, 3 + k) = LittleEndian(length, k))))
    /\ (Encoded /\ out.ok /\ Kind(inp.value) = "Int") =>
          Let(out.bytes[3], LAMBDA k :
              /\ out.bytes[2] = INT_D1 =>
                    /\ k = Len(out.bytes) - 3
                    /\ k > 5
              /\ out.bytes[2] = INT_D2 =>
                    /\ k = ByteWidth(Len(out.bytes) - (3 + k))
                    /\ SubSeq(out.bytes, 4, 3 + k)
                          = LittleEndian(Len(out.bytes) - (3 + k), k)
                    /\ Len(out.bytes) - (3 + k) > 255)

C10_Dynamic1 ==
    /\ Encoded /\ out.ok /\ inp.value = Bytes(Fill(WidestLen))
    /\ out.bytes[2] = BYTES_D1 /\ out.bytes[3] = 3

C12_TruncatedList ==
    (/\ dec.how = "prefix"
     /\ Kind(inp.value) = "List"
     /\ Len(dec.bytes) >= 3
     /\ dec.bytes[2] = LIST_1)
        => (~dec.r.ok /\ dec.r.err = "Truncated")

\* The second element's tag is read behind the end of the buffer, and what
\* the heap holds there is decoded as the element: a value is returned.
C12_ElementFromHeap ==
    /\ dec.how = "prefix"
    /\ dec.bytes = <<PROT_2, LIST_1, 2, BOOL_T>>
    /\ dec.r.ok
    /\ Kind(dec.r.val) = "List" /\ Len(Pl(dec.r.val)) = 2
    /\ dec.r.bd.hi >= Len(dec.bytes)

\* C13: to_value dispatches on byte 0 alone.  With PROT_2 the current decoder
\* runs from offset 1, with PROT_1 the legacy decoder does (and reads the
\* second byte by its own tag table), and with any other first byte, or none,
\* to_value fails with InvalidProtocol and has read no byte behind the first.
C13_Dispatch ==
    (dec.how = "marked" \/ (dec.how = "prefix" /\ dec.bytes = <<>>)) =>
        Let(IF dec.bytes = <<>> THEN 0 ELSE dec.bytes[1], LAMBDA protocol :
            /\ protocol = PROT_2 =>
                  /\ dec.r.err # "InvalidProtocol"
                  /\ dec.r.bd.hi >= 1
                  /\ dec.r = to_any_value(NewByteData(dec.bytes, <<>>))
                  /\ Kind(inp.value) \in {"Bool", "None", "Ellipsis"}
                        => (dec.r.ok /\ dec.r.val = inp.value)
            /\ protocol = PROT_1 =>
                  /\ dec.r.err # "InvalidProtocol"
                  /\ dec.r.bd.hi >= 1
                  /\ inp.value = Bool(TRUE) => (dec.r.ok /\ dec.r.val = Bool(FALSE))
                  /\ inp.value = NoneV => (dec.r.ok /\ dec.r.val = EllipsisV)
                  /\ inp.value = Bool(FALSE) => (~dec.r.ok /\ dec.r.err = "Truncated")
            /\ protocol \notin {PROT_2, PROT_1} =>
                  /\ ~dec.r.ok
                  /\ dec.r.err = "InvalidProtocol"
                  /\ dec.r.bd.hi = -1
                  /\ dec.r.bd.offset = 1)

\* The encoding of True behind the legacy marker is the legacy False.
C13_LegacyFalse ==
    /\ dec.how = "marked" /\ dec.bytes = <<PROT_1, BOOL_T>>
    /\ dec.r.ok /\ dec.r.val = Bool(FALSE)

\* The smallest number of bytes that hold the integer v = [neg, mag] in two's
\* complement, sign bit included, and those bytes, least significant first.
SignedWidth(v) ==
    IF v.mag = <<>> THEN 1
    ELSE IF v.mag[Len(v.mag)] < 128 THEN Len(v.mag)
    ELSE IF v.neg /\ v.mag[Len(v.mag)] = 128
              /\ (\A i \in 1..(Len(v.mag) - 1) : v.mag[i] = 0) THEN Len(v.mag)
    ELSE Len(v.mag) + 1

TwosComplement(v, n) ==
    IF v.neg THEN Invert(DecBytes(PadTo(v.mag, n))) ELSE PadTo(v.mag, n)

\* The tag of an integer of n bytes and the length bytes behind it.
IntHead(n) ==
    IF n <= 5 THEN <<INT_1 + (n - 1)>>
    ELSE IF n <= 255 THEN <<INT_D1, n>>
    ELSE <<INT_D2, ByteWidth(n)>> \o LittleEndian(n, ByteWidth(n))

\* C18: from_value writes every Int, positive, zero or negative, as the
\* smallest number n of bytes that hold it in two's complement with its sign
\* bit, least significant byte first, behind the tag INT_n for n up to 5 and
\* INT_D1 or INT_D2 with the length above; 0 is <<PROT_2, INT_1, 0>>.
C18_IntTwosComplement ==
    (Encoded /\ Kind(inp.value) = "Int") =>
        /\ out.ok
        /\ out.bytes = <<PROT_2>> \o IntHead(SignedWidth(Pl(inp.value)))
                          \o TwosComplement(Pl(inp.value), SignedWidth(Pl(inp.value)))

\* -70000 needs three bytes and is given one: from_value raises.
C18_NegativeOneByte ==
    /\ Encoded /\ inp.value = IntV(-70000)
    /\ SignedWidth(Pl(inp.value)) = 3
    /\ ~out.ok /\ out.err = "Exception"

\* C19: to_value gives a Bytes for every tag of the Bytes family (E, 1, 2, D1,
\* D2) and a ByteArray for every tag of the ByteArray family: the type of the
\* result follows the family of the tag, not its width variant.
C19_ContainerByFamily ==
    (dec.how = "whole" /\ dec.r.ok) =>
        /\ dec.bytes[2] \in {BYTES_E, BYTES_1, BYTES_2, BYTES_D1, BYTES_D2}
              => Kind(dec.r.val) = "Bytes"
        /\ dec.bytes[2] \in {BYTEARR_E, BYTEARR_1, BYTEARR_2, BYTEARR_D1, BYTEARR_D2}
              => Kind(dec.r.val) = "ByteArray"

\* The E tag of the ByteArray family gives a Bytes, its 1 tag a ByteArray.
C19_EmptyByteArray ==
    /\ dec.how = "whole" /\ dec.bytes = <<PROT_2, BYTEARR_E>>
    /\ dec.r.ok /\ dec.r.val = Bytes(<<>>)

\* C20: once an ensure_offset or the decode of an element inside a composite
\* has failed, the decoder reads no further byte and decodes no further
\* element, dereferences no missing element, and returns no value: to_value
\* fails, and no byte was read after the first failure.
C20_AbortAtOnce ==
    (dec.how \in {"whole", "prefix", "list", "marked"} /\ dec.r.bd.failed) =>
        /\ ~dec.r.ok
        /\ ~dec.r.bd.late
        /\ "nullderef" \notin dec.r.bd.ub

\* The key of a Dict is cut short, and the tag of its value is read all the
\* same, behind the end of the buffer.
C20_ValueAfterFailedKey ==
    /\ dec.how = "prefix" /\ Kind(inp.value) = "Dict"
    /\ dec.bytes = <<PROT_2, DICT_1, 1, STR_1, 1>>
    /\ ~dec.r.ok /\ dec.r.bd.late
    /\ dec.r.bd.hi >= Len(dec.bytes)

\* C21: whenever from_value fails it raises one of its typed errors, having
\* freed the output buffer exactly once, and no from_value, failed or not,
\* has written through the NULL of a failed allocation.
C21_FailureSink ==
    enc.phase = "done" =>
        /\ "nullwrite" \notin out.vd.faults
        /\ ~out.ok => /\ out.err \in {"Unsupported", "NestDepth", "NoMemory", "Exception"}
                      /\ out.vd.frees = 1

\* A realloc fails while a List is encoded: auto_resize_vd frees the buffer,
\* and from_value frees it again.
C21_FreedTwice ==
    /\ enc.phase = "done" /\ ~out.ok /\ out.err = "NoMemory"
    /\ inp.allocs = 1
    /\ out.vd.frees = 2

\* The first malloc fails and the encoder goes on to write the value.
C21_WriteThroughNull ==
    /\ enc.phase = "done" /\ inp.allocs = 0
    /\ out.vd.isnull /\ "nullwrite" \in out.vd.faults

\* C25: while from_value encodes, vd->nests is the number of composite
\* encoders entered and not yet left, the NamedTuple encoder among them, and
\* it is 0 when from_value returns its bytes.
C25_NestsCountEntered ==
    /\ enc.phase = "run" => enc.vd.nests = Len(enc.frames) - 1
    /\ (enc.phase = "done" /\ out.ok) => out.vd.nests = 0

\* Inside the encoder of a NamedTuple at top level, the count is still 0.
C25_InsideNamedTuple ==
    /\ enc.phase = "run" /\ Len(enc.frames) = 2
    /\ enc.frames[2].kind = "NamedTuple"
    /\ enc.vd.nests = 0

\* What to_value gave, without the decoder's bookkeeping.
Outcome(r) == <<r.ok, r.val, r.err>>

\* C27: to_value decodes the one value that starts at offset 1 and ignores
\* what follows it: for an encoding b that from_value has returned and any
\* bytes t, to_value(b \o t) gives what to_value(b) gives, and reads nothing
\* of t.
C27_TailIgnored ==
    dec.how = "tailed" =>
        /\ Outcome(dec.r) = Outcome(to_value(out.bytes))
        /\ dec.r.bd.hi < Len(out.bytes)

\* A Str decoded from a buffer that goes on with the tail of an earlier
\* write.
C27_StrWithStaleTail ==
    /\ dec.how = "tailed" /\ Len(dec.t) = 15
    /\ inp.value = Str(<<200, 66>>)
    /\ dec.r.ok /\ dec.r.val = inp.value
    /\ dec.r.bd.max_offset = Len(out.bytes) + 15

C29_WritesInsideBuffer ==
    enc.phase \in {"run", "ret", "done"} =>
        /\ enc.vd.offset <= enc.vd.max_size
        /\ "overflow" \notin enc.vd.faults

\* The Int of WideLen bytes at the end of a List: from_integer asked for
\* 1 + 2 + WideLen bytes, the buffer had exactly those, and the tag, the
\* three width bytes and the WideLen bytes of the Int went one past its end.
C29_OnePastTheEnd ==
    /\ enc.phase = "done" /\ out.ok
    /\ Kind(inp.value) = "List" /\ Len(Pl(inp.value)) = 12
    /\ Take(Pl(inp.value), 11) = Brimful
    /\ enc.vd.max_size = GetSizeOf(inp.value) + ALLOC_SIZE
    /\ enc.vd.offset = enc.vd.max_size + 1
    /\ "overflow" \in enc.vd.faults

\* ------------------------------------------------------------------------
\* Claims about membridge, under Spec.
\* ------------------------------------------------------------------------
\* What read_memory gives for a payload holding the whole encoding of v.
Stored(v) == to_value(from_value(v).bytes)

ReadDone(p) == procs[p].pc = "done" /\ procs[p].op = "read_memory"
InPayload(p) == procs[p].pc \in {"memcpy", "memcpy_rest", "read"}
Quiescent == \A p \in Procs : procs[p].pc \in {"idle", "done"}

\* C2: with write_memory and read_memory running concurrently on one
\* segment, a read_memory that returns a value returns None, for a segment
\* nothing was written to, or one of the values written, in full; never part
\* of one.  (Stated where every memcpy found the bytes it was to copy.)
C2_ReadsOneWrite ==
    \A p \in Procs :
        (ReadDone(p) /\ ~hist.clobbered /\ procs[p].ret[1] = "value") =>
            \/ procs[p].ret[2] = NoneV
            \/ \E v \in hist.written : Stored(v).ok /\ procs[p].ret[2] = Stored(v).val

C2_TornRead ==
    \E p \in Procs :
        /\ ReadDone(p) /\ ~hist.clobbered
        /\ procs[p].ret[1] = "value"
        /\ Kind(procs[p].ret[2]) = "Str"
        /\ \A v \in hist.written : procs[p].ret[2] # Stored(v).val

\* C3: a process that is reading or writing the payload holds the mutex of
\* the segment it has mapped.
C3_MutexHeld ==
    \A p \in Procs :
        InPayload(p) => shmObjs[procs[p].shm].mutex = <<"held", p>>

C3_TwoInside ==
    \E p, o \in Procs :
        /\ p # o
        /\ procs[p].pc = "memcpy_rest" /\ InPayload(o)
        /\ procs[p].shm = procs[o].shm

\* C5: a read_memory called after a write_memory(name, v) that grew the
\* segment has returned, with no write_memory or remove_memory called in
\* between or since, returns v.  (Stated where every memcpy found the bytes
\* it was to copy.)
C5_ReadAfterGrow ==
    \A p \in Procs :
        (ReadDone(p) /\ ~hist.clobbered
            /\ procs[p].last # <<>> /\ hist.seq = procs[p].since) =>
            /\ procs[p].ret[1] = "value"
            /\ PyEq(procs[p].ret[2], procs[p].last[1])

C5_ReadOtherType ==
    \E p \in Procs :
        /\ ReadDone(p) /\ ~hist.clobbered
        /\ procs[p].last = <<Bytes(<<>>)>> /\ hist.seq = procs[p].since
        /\ procs[p].ret = <<"value", ByteArray(<<>>)>>

\* C6: whenever no operation is in progress, the size of the object behind
\* the name is sizeof(BasicShm) + max_size of its header.
C6_SizeMatchesHeader ==
    (Quiescent /\ shmName # 0) =>
        shmObjs[shmName].size = BASIC_SIZE + shmObjs[shmName].max_size

C6_ShorterThanHeaderSays ==
    /\ Quiescent /\ shmName # 0
    /\ \A p \in Procs : procs[p].op = "write_memory" /\ procs[p].ret = <<"value", Bool(TRUE)>>
    /\ shmObjs[shmName].size < BASIC_SIZE + shmObjs[shmName].max_size

\* C14: write_memory on a name that does not exist.  With create = false it
\* fails with the MemoryError of a failed open and no object is bound to the
\* name or created by it; with create true or omitted it creates the segment
\* and stores the value, so that a read_memory called after it has returned,
\* these being the only two calls made and the name unbound before them,
\* returns the value written.
C14_WriteOnAbsentName ==
    [][\A p \in Procs :
          /\ (/\ procs[p].op = "write_memory" /\ procs[p].pc = "get_shm"
               /\ procs[p].create = "false" /\ shmName = 0
               /\ procs'[p] # procs[p])
                => /\ procs'[p].pc = "done"
                   /\ procs'[p].ret = <<"error", "MemoryError">>
                   /\ shmName' = 0
                   /\ shmObjs' = shmObjs
          /\ (/\ procs[p].op = "read_memory" /\ procs[p].pc # "done"
               /\ procs'[p].pc = "done"
               /\ ~hist.pre /\ hist.calls = 2 /\ procs[p].last # <<>>)
                => /\ procs'[p].ret[1] = "value"
                   /\ PyEq(procs'[p].ret[2], procs[p].last[1])]_vars

\* The write created the segment and returned True, and the read that
\* followed raised: memcpy had copied from the released bytes object.
C14_StoredFreedBytes ==
    \E p \in Procs :
        /\ ReadDone(p) /\ ~hist.pre /\ hist.calls = 2 /\ hist.clobbered
        /\ procs[p].last = <<Str(<<65, 66>>)>>
        /\ procs[p].ret[1] = "error"

\* C15: read_memory never creates a segment.  No step of a read_memory binds
\* the name or creates an object; when the name is not bound at its shm_open
\* it fails with the MemoryError of a failed open and the name stays unbound;
\* when the header it mapped says max_size = 0 it returns None, not what the
\* decoder makes of an empty payload.
C15_ReadNeverCreates ==
    [][\A p \in Procs :
          (/\ procs[p].op = "read_memory"
           /\ procs[p].pc \notin {"idle", "done", "crashed"}
           /\ procs'[p] # procs[p])
            => /\ shmName' = shmName
               /\ Len(shmObjs') = Len(shmObjs)
               /\ (procs[p].pc = "get_shm" /\ shmName = 0)
                     => /\ procs'[p].pc = "done"
                        /\ procs'[p].ret = <<"error", "MemoryError">>
               /\ (procs[p].pc = "read" /\ shmObjs[procs[p].shm].max_size = 0)
                     => /\ procs'[p].pc = "close_shm"
                        /\ procs'[p].ret = <<"value", NoneV>>
               /\ procs[p].pc = "close_shm"
                     => /\ procs'[p].pc = "done"
                        /\ procs'[p].ret = procs[p].ret]_vars

\* A read_memory of a segment create_memory made with no payload gave None.
C15_NoneFromEmptySegment ==
    \E p \in Procs :
        /\ ReadDone(p) /\ procs[p].ret = <<"value", NoneV>>
        /\ shmName # 0
        /\ shmObjs[shmName].max_size = 0
        /\ Len(shmObjs) = 1

\* C16: create_memory returns True exactly when it created a new segment, and
\* the object it created then has max_size = prealloc_size and a mutex that
\* pthread_mutex_init has set up.  When the name is bound at its shm_open it
\* changes no object and no binding and returns False, or raises if
\* error_if_exists is true.
C16_CreateMemory ==
    [][\A p \in Procs :
          (/\ procs[p].op = "create_memory"
           /\ procs[p].pc \notin {"idle", "done", "crashed"}
           /\ procs'[p] # procs[p])
            => /\ (procs[p].pc = "create_shared_memory" /\ shmName # 0)
                     => /\ procs'[p].pc = "done"
                        /\ procs'[p].ret = IF procs[p].error_if_exists
                                              THEN <<"error", "MemoryError">>
                                              ELSE <<"value", Bool(FALSE)>>
                        /\ shmObjs' = shmObjs
                        /\ shmName' = shmName
               /\ (procs[p].pc = "create_shared_memory" /\ shmName = 0)
                     => /\ procs'[p].pc # "done"
                        /\ Len(shmObjs') = Len(shmObjs) + 1
                        /\ shmName' = Len(shmObjs')
                        /\ procs'[p].fd = shmName'
               /\ (procs'[p].pc = "done" /\ procs[p].pc # "create_shared_memory")
                     => /\ procs[p].pc = "create_max_size"
                        /\ procs'[p].ret = <<"value", Bool(TRUE)>>
                        /\ shmObjs'[procs[p].fd].max_size = procs[p].pre_size
                        /\ shmObjs'[procs[p].fd].mutex = <<"free">>
               /\ procs'[p].ret = <<"value", Bool(TRUE)>>
                     => procs[p].pc = "create_max_size"]_vars

\* One create_memory made the segment with room for 8 bytes and returned
\* True, and the other found it and returned False.
C16_SecondCreateFalse ==
    \E p, o \in Procs :
        /\ procs[p].op = "create_memory" /\ procs[p].pc = "done"
        /\ procs[p].ret = <<"value", Bool(TRUE)>>
        /\ procs[o].op = "create_memory" /\ procs[o].pc = "done"
        /\ procs[o].ret = <<"value", Bool(FALSE)>>
        /\ shmName # 0 /\ Len(shmObjs) = 1
        /\ shmObjs[shmName].max_size = 8
        /\ shmObjs[shmName].mutex = <<"free">>

C22_UnlockOnlyByHolder ==
    /\ hist.stray = {}
    /\ \A p \in Procs :
          procs[p].pc = "close_shm" => shmObjs[procs[p].shm].mutex = <<"held", p>>

\* A read_memory has returned through close_shm, which unlocked a mutex
\* that the reader had never locked.
C22_ReaderUnlocks ==
    \E p \in Procs :
        /\ procs[p].op = "read_memory" /\ procs[p].pc = "done"
        /\ procs[p].ret[1] = "value"
        /\ "read_memory" \in hist.stray
        /\ "write_memory" \notin hist.stray

\* C23: while the name stays bound to a segment, no step of any process
\* lowers the max_size of its header or the size of its backing object.
C23_NeverShrinks ==
    [][(shmName # 0 /\ shmName' = shmName) =>
           /\ shmObjs'[shmName].max_size >= shmObjs[shmName].max_size
           /\ shmObjs'[shmName].size >= shmObjs[shmName].size]_vars

\* Two write_memory calls have both read max_size before either resized:
\* the ftruncate of the shorter value has cut the object below the size the
\* other one, still on its way to map it, had just given it.
C23_CutByShorterWrite ==
    \E p \in Procs :
        /\ procs[p].op = "write_memory" /\ procs[p].pc = "get_shm_map"
        /\ procs[p].fd = shmName
        /\ procs[p].total_size = BASIC_SIZE + procs[p].new_size + HEAD_SIZE
        /\ shmObjs[shmName].size < procs[p].total_size
        /\ shmObjs[shmName].size >= BASIC_SIZE + HEAD_SIZE

\* The steps of create_shared_memory between its shm_open and its return.
Creating == {"create_ftruncate", "create_mutex", "create_max_size"}

\* C24: while a process is between the shm_open(O_CREAT | O_EXCL) of
\* create_shared_memory and its store of max_size, no other process has
\* mapped the header of that object, read its max_size, resized it or mapped
\* it whole.
C24_NoUseBeforeInit ==
    \A c \in Procs : \A o \in Procs \ {c} :
        procs[c].pc \in Creating =>
            /\ ~(/\ procs[o].fd = procs[c].fd
                 /\ procs[o].pc \in {"get_shm_ftruncate", "get_shm_map"})
            /\ procs[o].shm # procs[c].fd

\* A write_memory has read max_size from the header and resized the object
\* while the creator has yet to initialise the mutex and to store max_size.
C24_ResizedBeforeMutexInit ==
    \E c \in Procs : \E o \in Procs \ {c} :
        /\ procs[c].pc = "create_mutex" /\ procs[c].op = "create_memory"
        /\ procs[o].op = "write_memory" /\ procs[o].pc = "get_shm_map"
        /\ procs[o].fd = procs[c].fd
        /\ shmObjs[procs[c].fd].mutex = <<"zero">>
        /\ shmObjs[procs[c].fd].size > BASIC_SIZE + procs[c].pre_size

\* C26: a read_memory of a segment that create_memory has made and that no
\* write_memory or remove_memory has been called on since returns None,
\* whatever its prealloc_size.
C26_NoneBeforeFirstWrite ==
    \A p \in Procs :
        (/\ hist.pre /\ hist.seq = 0
         /\ procs[p].op = "read_memory" /\ procs[p].pc = "done") =>
            procs[p].ret = <<"value", NoneV>>

\* The segment was created with 8 bytes preallocated: read_memory hands its
\* 8 zero bytes to to_value, which raises.
C26_ZerosDecoded ==
    \E p \in Procs :
        /\ hist.pre /\ hist.seq = 0 /\ hist.written = {}
        /\ shmName = 1 /\ shmObjs[1].max_size = 8 /\ shmObjs[1].data = [i \in 1..8 |-> 0]
        /\ procs[p].op = "read_memory" /\ procs[p].pc = "done"
        /\ procs[p].ret[1] = "error"
        /\ ~to_value(shmObjs[1].data).ok

\* C30: write_memory runs its memcpy into the payload while it still holds
\* its reference to the bytes object from_value returned: the buffer is not
\* released before the copy is over, and what is copied is the encoding.
C30_CopyFromLiveBuffer ==
    \A p \in Procs :
        procs[p].pc \in {"memcpy", "memcpy_rest"} =>
            /\ ~procs[p].freed
            /\ procs[p].pc = "memcpy_rest" =>
                   procs[p].bytes = from_value(procs[p].value).bytes

\* Half of the memcpy is done, from a buffer that was released before get_shm
\* was called and has been overwritten since.
C30_CopiedAfterRelease ==
    \E p \in Procs :
        /\ procs[p].op = "write_memory" /\ procs[p].pc = "memcpy_rest"
        /\ procs[p].freed
        /\ procs[p].value = Str(<<65, 66>>)
        /\ procs[p].bytes # from_value(procs[p].value).bytes
        /\ shmObjs[procs[p].shm].data[1] = 221

=============================================================================
